---- MODULE Spec2Model ----
(***************************************************************************)
(* Model of the mechanistic interpretability engine of                     *)
(* nbahador/bigquery-adk-code (src/interpretability_utils.py).             *)
(*                                                                         *)
(* A claim record is a Python dict: it is modelled as a function whose     *)
(* DOMAIN is the set of keys present, so that dict.get(key, default) is    *)
(* modelled by what it does.  State codes are sequences of one-character   *)
(* strings so that str.upper() is computed, not assumed.  Amounts are      *)
(* whole currency units.                                                   *)
(***************************************************************************)
EXTENDS Integers, Sequences, FiniteSets, TLC

VARIABLES
    op,                    \* the operations called so far
    claim_data,            \* the claim dict given to the operations
    validation,            \* return value of validate_claim_data
    report,                \* return value of generate_interpretability_report
    other_claim,           \* a second claim dict (two-run properties)
    other_rules,           \* return value of evaluate_business_rules(other_claim)
    rules_activated,       \* an activation list: evaluate_business_rules' return
                           \* value, the aggregator operations' argument
    decision_pathway,      \* return value of trace_decision_pathway
    confidence_assessment, \* return value of assess_confidence
    recommendations,       \* return value of generate_recommendations
    claims_df,             \* batch given to the fairness monitor
    fairness_report,       \* return value of check_demographic_fairness
    alerts,                \* return value of generate_disparity_alerts
    key_order,             \* insertion order of the keys of claim_data
    other_order,           \* insertion order of the keys of other_claim
    other_validation,      \* return value of validate_claim_data(other_claim)
    other_report,          \* return value of generate_interpretability_report(other_claim)
    audit_entry,           \* return value of create_audit_log(claim_data, ...)
    other_audit,           \* return value of create_audit_log(other_claim, ...)
    now,                   \* the clock read by datetime.utcnow()
    batch,                 \* the claim dicts of a batch, one per worker
    class_tables,          \* the class attributes shared by every call
    pc,                    \* the statement each worker is at
    frame,                 \* the local names of each worker's current call
    error_lists,           \* the list objects created by `errors = []`
    rule_lists,            \* the list objects created by `rules_activated = []`
    result,                \* the values returned to each worker
    seen,                  \* the agent events run_conversation has received
    tool_calls,            \* run_conversation's local tool_calls
    final_response_text,   \* run_conversation's local final_response_text
    run_pc,                \* where run_conversation is
    returned               \* what run_conversation returned or raised

claimVars == <<claim_data, validation, report>>
pairVars  == <<other_claim, other_rules>>
aggVars   == <<rules_activated, decision_pathway, confidence_assessment, recommendations>>
fairVars  == <<claims_df, fairness_report, alerts>>
auditVars == <<key_order, other_order, other_validation, other_report,
               audit_entry, other_audit, now>>

batchVars == <<batch, class_tables, pc, frame, error_lists, rule_lists, result>>
agentVars == <<seen, tool_calls, final_response_text, run_pc, returned>>

vars == <<op, claimVars, pairVars, aggVars, fairVars, auditVars, batchVars, agentVars>>

-----------------------------------------------------------------------------
(* Bounds of the model                                                     *)

\* Amounts are drawn from every boundary of the code, plus and minus 0..AmountDelta.
AmountDelta == 1
\* Longest activation list given to the aggregator operations.
MaxActs == 3
\* Longest list of confidences given to assess_confidence alone.
MaxConf == 10
\* Largest number of rows in a batch of the fairness monitor.
MaxRows == 4

-----------------------------------------------------------------------------
(* Python values                                                           *)

\* Python's None, as returned by dict.get(key) for an absent key.
None == "<None>"

\* dict.get(key, default)
Get(d, key, default) == IF key \in DOMAIN d THEN d[key] ELSE default

\* Truthiness of a str-or-None value: None and '' are falsy.
Truthy(v) == v # None /\ v # ""

Lower == <<"a","b","c","d","e","f","g","h","i","j","k","l","m",
           "n","o","p","q","r","s","t","u","v","w","x","y","z">>
UpperLetters == <<"A","B","C","D","E","F","G","H","I","J","K","L","M",
           "N","O","P","Q","R","S","T","U","V","W","X","Y","Z">>

\* str.upper() on one character
UpperChar(ch) ==
    IF \E i \in 1..26 : Lower[i] = ch
    THEN UpperLetters[CHOOSE i \in 1..26 : Lower[i] = ch]
    ELSE ch

\* str.upper() on a string held as a sequence of characters
Upper(s) == [i \in DOMAIN s |-> UpperChar(s[i])]

\* A two-letter code as a sequence of characters.
Code(a, b) == <<a, b>>

-----------------------------------------------------------------------------
(* Reference tables                                                        *)

VALID_STATES ==
    { Code("A","L"), Code("A","K"), Code("A","Z"), Code("A","R"), Code("C","A"),
      Code("C","O"), Code("C","T"), Code("D","E"), Code("F","L"), Code("G","A"),
      Code("H","I"), Code("I","D"), Code("I","L"), Code("I","N"), Code("I","A"),
      Code("K","S"), Code("K","Y"), Code("L","A"), Code("M","E"), Code("M","D"),
      Code("M","A"), Code("M","I"), Code("M","N"), Code("M","S"), Code("M","O"),
      Code("M","T"), Code("N","E"), Code("N","V"), Code("N","H"), Code("N","J"),
      Code("N","M"), Code("N","Y"), Code("N","C"), Code("N","D"), Code("O","H"),
      Code("O","K"), Code("O","R"), Code("P","A"), Code("R","I"), Code("S","C"),
      Code("S","D"), Code("T","N"), Code("T","X"), Code("U","T"), Code("V","T"),
      Code("V","A"), Code("W","A"), Code("W","V"), Code("W","I"), Code("W","Y") }

valid_procedures ==
    { "Virtual Consultation", "Mental Health Session", "Prescription Refill",
      "Follow-up Visit", "Emergency Consult" }

\* procedure_norms of evaluate_business_rules: procedure -> max-normal threshold
procedure_norms ==
    [ p \in valid_procedures |->
        CASE p = "Virtual Consultation"  -> 450
          [] p = "Mental Health Session" -> 600
          [] p = "Prescription Refill"   -> 150
          [] p = "Follow-up Visit"       -> 360
          [] p = "Emergency Consult"     -> 900 ]

unusual_combos ==
    { <<"Mental Health Session", "Common Cold">>,
      <<"Mental Health Session", "Back Pain">>,
      <<"Emergency Consult", "Allergies">>,
      <<"Emergency Consult", "Common Cold">> }

restricted_states == { Code("W","Y"), Code("A","K"), Code("M","T") }

\* procedure_thresholds of generate_counterfactuals
procedure_thresholds ==
    [ p \in { "Virtual Consultation", "Mental Health Session", "Emergency Consult" } |->
        CASE p = "Virtual Consultation"  -> 450
          [] p = "Mental Health Session" -> 600
          [] p = "Emergency Consult"     -> 900 ]

-----------------------------------------------------------------------------
(* validate_claim_data                                                     *)

\* The amount check and its message.
AmountErrors(claim) ==
    LET amount == Get(claim, "claim_amount", 0)
    IN  IF ~(1 <= amount /\ amount <= 10000)
        THEN << [error |-> "Invalid claim amount", amount |-> amount] >>
        ELSE << >>

\* The state check and its message.
StateErrors(claim) ==
    LET state == Upper(Get(claim, "patient_state", << >>))
    IN  IF state \notin VALID_STATES
        THEN << [error |-> "Invalid state code", state |-> state] >>
        ELSE << >>

\* The procedure check and its message.
ProcedureErrors(claim) ==
    LET procedure == Get(claim, "procedure_type", None)
    IN  IF Truthy(procedure) /\ procedure \notin valid_procedures
        THEN << [error |-> "Invalid procedure type", procedure |-> procedure] >>
        ELSE << >>

validate_claim_data(claim) ==
    LET errors == AmountErrors(claim) \o StateErrors(claim) \o ProcedureErrors(claim)
    IN  [valid |-> Len(errors) = 0, errors |-> errors]

-----------------------------------------------------------------------------
(* analyze_claim_features                                                  *)

\* procedure_norms of analyze_claim_features: avg, std, max_normal
feature_norms ==
    [ p \in valid_procedures |->
        CASE p = "Virtual Consultation"  -> [avg |-> 150, std |-> 45, max_normal |-> 450]
          [] p = "Mental Health Session" -> [avg |-> 200, std |-> 60, max_normal |-> 600]
          [] p = "Prescription Refill"   -> [avg |-> 50,  std |-> 15, max_normal |-> 150]
          [] p = "Follow-up Visit"       -> [avg |-> 120, std |-> 36, max_normal |-> 360]
          [] p = "Emergency Consult"     -> [avg |-> 300, std |-> 90, max_normal |-> 900] ]

diagnosis_category(diagnosis) ==
    IF diagnosis \in {"Anxiety", "Depression", "Insomnia"} THEN "Mental Health"
    ELSE IF diagnosis \in {"Hypertension", "Diabetes", "Common Cold", "Back Pain",
                           "Migraine", "Allergies", "Stomach Flu"} THEN "Physical"
    ELSE "Unknown"

\* analyze_claim_features with the maximum compared inclusively (>= for >).
analyze_claim_features_inclusive(claim) ==
    LET procedure == Get(claim, "procedure_type", None)
        amount    == Get(claim, "claim_amount", 0)
        diagnosis == Get(claim, "diagnosis", None)
    IN  [ procedure_analysis |->
            IF procedure \in DOMAIN feature_norms
            THEN LET norm == feature_norms[procedure]
                 IN  [ expected_range |-> <<norm.avg - norm.std, norm.avg + norm.std>>,
                       actual_amount  |-> amount,
                       deviation_sigma |-> [num |-> amount - norm.avg, den |-> norm.std],
                       threshold_violation |-> amount >= norm.max_normal ]
            ELSE << >>,
          diagnosis_analysis |->
            [ diagnosis_category |-> diagnosis_category(diagnosis) ],
          amount_analysis |-> << >>,
          geographic_analysis |-> << >> ]

\* deviation_sigma is kept as the fraction num/den it is computed from.
analyze_claim_features(claim) ==
    LET procedure == Get(claim, "procedure_type", None)
        amount    == Get(claim, "claim_amount", 0)
        diagnosis == Get(claim, "diagnosis", None)
    IN  [ procedure_analysis |->
            IF procedure \in DOMAIN feature_norms
            THEN LET norm == feature_norms[procedure]
                 IN  [ expected_range |-> <<norm.avg - norm.std, norm.avg + norm.std>>,
                       actual_amount  |-> amount,
                       deviation_sigma |-> [num |-> amount - norm.avg, den |-> norm.std],
                       threshold_violation |-> amount > norm.max_normal ]
            ELSE << >>,
          diagnosis_analysis |->
            [ diagnosis_category |-> diagnosis_category(diagnosis) ],
          amount_analysis |-> << >>,
          geographic_analysis |-> << >> ]

-----------------------------------------------------------------------------
(* evaluate_business_rules                                                 *)

\* Division rounded to the nearest integer (no tie occurs for the amounts and
\* thresholds of the model: 2000 * amount / threshold is never an odd integer).
RoundDiv(n, d) == (2 * n + d) \div (2 * d)

\* f'{amount/threshold*100:.1f}' in tenths of a percent
EvidencePercent(amount, threshold) == RoundDiv(amount * 1000, threshold)

\* Rule 1: unusual diagnosis-procedure combinations
UnusualComboRule(claim) ==
    LET procedure == Get(claim, "procedure_type", None)
        diagnosis == Get(claim, "diagnosis", None)
    IN  IF <<procedure, diagnosis>> \in unusual_combos
        THEN << [ rule_id     |-> "UNUSUAL_COMBO",
                  description |-> <<"Unusual combination", procedure, diagnosis>>,
                  confidence  |-> "High",
                  evidence    |-> <<"Combination statistically rare in historical data">> ] >>
        ELSE << >>

\* Rule 2 with the threshold compared inclusively (>= for >).
HighAmountRule_inclusive(claim) ==
    LET procedure == Get(claim, "procedure_type", None)
        amount    == Get(claim, "claim_amount", 0)
    IN  IF procedure \in DOMAIN procedure_norms
        THEN LET threshold == procedure_norms[procedure]
             IN  IF amount >= threshold
                 THEN << [ rule_id     |-> "HIGH_AMOUNT",
                           description |-> <<"Claim amount exceeds threshold", amount, threshold>>,
                           confidence  |-> IF 2 * amount >= 3 * threshold
                                           THEN "High" ELSE "Medium",
                           evidence    |-> <<EvidencePercent(amount, threshold),
                                             "% above expected maximum">> ] >>
                 ELSE << >>
        ELSE << >>

\* Rule 2: high claim amount.  An unknown procedure has threshold float('inf'),
\* which no amount exceeds.
HighAmountRule(claim) ==
    LET procedure == Get(claim, "procedure_type", None)
        amount    == Get(claim, "claim_amount", 0)
    IN  IF procedure \in DOMAIN procedure_norms
        THEN LET threshold == procedure_norms[procedure]
             IN  IF amount > threshold
                 THEN << [ rule_id     |-> "HIGH_AMOUNT",
                           description |-> <<"Claim amount exceeds threshold", amount, threshold>>,
                           confidence  |-> IF 2 * amount > 3 * threshold
                                           THEN "High" ELSE "Medium",
                           evidence    |-> <<EvidencePercent(amount, threshold),
                                             "% above expected maximum">> ] >>
                 ELSE << >>
        ELSE << >>

\* Rule 3 without the procedure condition: any claim from a restricted state.
GeographicRule_anyProcedure(claim) ==
    LET procedure == Get(claim, "procedure_type", None)
    IN  IF /\ "patient_state" \in DOMAIN claim
           /\ claim["patient_state"] \in restricted_states
        THEN << [ rule_id     |-> "GEOGRAPHIC_RESTRICTION",
                  description |-> <<"Virtual consultation from restricted state",
                                    claim["patient_state"]>>,
                  confidence  |-> "High",
                  evidence    |-> <<"State not covered for virtual consultations">> ] >>
        ELSE << >>

\* Rule 3: geographic mismatch.  The state is read as given (no upper());
\* an absent state is None, which is in no list of codes.
GeographicRule(claim) ==
    LET procedure == Get(claim, "procedure_type", None)
    IN  IF /\ "patient_state" \in DOMAIN claim
           /\ claim["patient_state"] \in restricted_states
           /\ procedure = "Virtual Consultation"
        THEN << [ rule_id     |-> "GEOGRAPHIC_RESTRICTION",
                  description |-> <<"Virtual consultation from restricted state",
                                    claim["patient_state"]>>,
                  confidence  |-> "High",
                  evidence    |-> <<"State not covered for virtual consultations">> ] >>
        ELSE << >>

\* evaluate_business_rules as an if/elif chain: a rule is tried only when no
\* earlier rule activated.
evaluate_business_rules_elif(claim) ==
    IF UnusualComboRule(claim) # << >> THEN UnusualComboRule(claim)
    ELSE IF HighAmountRule(claim) # << >> THEN HighAmountRule(claim)
    ELSE GeographicRule(claim)

evaluate_business_rules(claim) ==
    UnusualComboRule(claim) \o HighAmountRule(claim) \o GeographicRule(claim)

-----------------------------------------------------------------------------
(* trace_decision_pathway, assess_confidence, generate_recommendations     *)

\* any(rule['rule_id'] == id for rule in rules)
AnyRule(rules, id) == \E i \in DOMAIN rules : rules[i].rule_id = id

\* trace_decision_pathway appending one sentence per activation, in list order.
trace_decision_pathway_perActivation(rules) ==
    LET known == SelectSeq(rules, LAMBDA r :
                    r.rule_id \in {"UNUSUAL_COMBO", "HIGH_AMOUNT", "GEOGRAPHIC_RESTRICTION"})
    IN  [ i \in DOMAIN known |->
            CASE known[i].rule_id = "UNUSUAL_COMBO" ->
                    "Primary trigger: Unusual diagnosis-procedure combination"
              [] known[i].rule_id = "HIGH_AMOUNT" ->
                    "Supporting factor: Abnormally high claim amount"
              [] known[i].rule_id = "GEOGRAPHIC_RESTRICTION" ->
                    "Geographic constraint violation" ]

trace_decision_pathway(rules) ==
    (IF AnyRule(rules, "UNUSUAL_COMBO")
     THEN <<"Primary trigger: Unusual diagnosis-procedure combination">> ELSE << >>)
    \o (IF AnyRule(rules, "HIGH_AMOUNT")
        THEN <<"Supporting factor: Abnormally high claim amount">> ELSE << >>)
    \o (IF AnyRule(rules, "GEOGRAPHIC_RESTRICTION")
        THEN <<"Geographic constraint violation">> ELSE << >>)

generate_recommendations(rules) ==
    (IF AnyRule(rules, "UNUSUAL_COMBO")
     THEN <<"Review medical necessity of procedure-diagnosis combination">> ELSE << >>)
    \o (IF AnyRule(rules, "HIGH_AMOUNT")
        THEN <<"Verify procedure coding and duration justification">> ELSE << >>)
    \o (IF AnyRule(rules, "GEOGRAPHIC_RESTRICTION")
        THEN <<"Confirm patient residency and coverage eligibility">> ELSE << >>)

\* sum(1 for rule in rules if rule['confidence'] == 'High')
HighConfRules(rules) == Cardinality({ i \in DOMAIN rules : rules[i].confidence = "High" })

\* assess_confidence counting every activation that is not Low as High.
assess_confidence_countsNotLow(rules) ==
    LET high_conf_rules == Cardinality({ i \in DOMAIN rules : rules[i].confidence # "Low" })
        total_rules     == Len(rules)
    IN  IF total_rules = 0
        THEN [ level  |-> "Low",
               score  |-> [num |-> 0, den |-> 1],
               reason |-> [text |-> "No rules activated", high |-> 0, total |-> 0] ]
        ELSE [ level  |-> IF 10 * high_conf_rules >= 7 * total_rules THEN "High"
                          ELSE IF 10 * high_conf_rules >= 4 * total_rules THEN "Medium"
                          ELSE "Low",
               score  |-> [num |-> high_conf_rules, den |-> total_rules],
               reason |-> [text |-> "high-confidence rules out of total",
                           high |-> high_conf_rules, total |-> total_rules] ]

\* assess_confidence with the High threshold compared strictly (> 0.7 for >= 0.7).
assess_confidence_strict(rules) ==
    LET high_conf_rules == HighConfRules(rules)
        total_rules     == Len(rules)
    IN  IF total_rules = 0
        THEN [ level  |-> "Low",
               score  |-> [num |-> 0, den |-> 1],
               reason |-> [text |-> "No rules activated", high |-> 0, total |-> 0] ]
        ELSE [ level  |-> IF 10 * high_conf_rules > 7 * total_rules THEN "High"
                          ELSE IF 10 * high_conf_rules >= 4 * total_rules THEN "Medium"
                          ELSE "Low",
               score  |-> [num |-> high_conf_rules, den |-> total_rules],
               reason |-> [text |-> "high-confidence rules out of total",
                           high |-> high_conf_rules, total |-> total_rules] ]

\* The score high/total is kept as the fraction [num, den]; score >= 0.7 is
\* 10 * num >= 7 * den and score >= 0.4 is 10 * num >= 4 * den.
assess_confidence(rules) ==
    LET high_conf_rules == HighConfRules(rules)
        total_rules     == Len(rules)
    IN  IF total_rules = 0
        THEN [ level  |-> "Low",
               score  |-> [num |-> 0, den |-> 1],
               reason |-> [text |-> "No rules activated", high |-> 0, total |-> 0] ]
        ELSE [ level  |-> IF 10 * high_conf_rules >= 7 * total_rules THEN "High"
                          ELSE IF 10 * high_conf_rules >= 4 * total_rules THEN "Medium"
                          ELSE "Low",
               score  |-> [num |-> high_conf_rules, den |-> total_rules],
               reason |-> [text |-> "high-confidence rules out of total",
                           high |-> high_conf_rules, total |-> total_rules] ]

-----------------------------------------------------------------------------
(* generate_counterfactuals                                                *)

\* generate_counterfactuals with the safe amount 1.1 times the threshold.
generate_counterfactuals_above(claim) ==
    LET current_amount == Get(claim, "claim_amount", 0)
        procedure      == Get(claim, "procedure_type", None)
    IN  IF procedure \in DOMAIN procedure_thresholds
        THEN LET threshold == procedure_thresholds[procedure]
             IN  IF threshold # 0 /\ current_amount > threshold
                 THEN << [ safe_amount |-> threshold * 110,
                           instead_of  |-> current_amount,
                           text        |-> "this claim would likely not be flagged as an outlier" ] >>
                 ELSE << >>
        ELSE << >>

\* generate_counterfactuals reading the rule engine's table of all five procedures.
generate_counterfactuals_allProcedures(claim) ==
    LET current_amount == Get(claim, "claim_amount", 0)
        procedure      == Get(claim, "procedure_type", None)
    IN  IF procedure \in DOMAIN procedure_norms
        THEN LET threshold == procedure_norms[procedure]
             IN  IF threshold # 0 /\ current_amount > threshold
                 THEN << [ safe_amount |-> threshold * 90,
                           instead_of  |-> current_amount,
                           text        |-> "this claim would likely not be flagged as an outlier" ] >>
                 ELSE << >>
        ELSE << >>

\* The sentence names f'{safe_amount:.2f}', kept in hundredths, and the
\* current amount.  threshold * 0.9 is exact for the three thresholds.
generate_counterfactuals(claim) ==
    LET current_amount == Get(claim, "claim_amount", 0)
        procedure      == Get(claim, "procedure_type", None)
    IN  IF procedure \in DOMAIN procedure_thresholds
        THEN LET threshold == procedure_thresholds[procedure]
             IN  IF threshold # 0 /\ current_amount > threshold
                 THEN << [ safe_amount |-> threshold * 90,
                           instead_of  |-> current_amount,
                           text        |-> "this claim would likely not be flagged as an outlier" ] >>
                 ELSE << >>
        ELSE << >>

-----------------------------------------------------------------------------
(* generate_interpretability_report                                        *)

generate_interpretability_report(claim, similar_claims) ==
    LET feature_analysis == analyze_claim_features(claim)
        rules            == evaluate_business_rules(claim)
    IN  [ claim_id              |-> Get(claim, "claim_id", None),
          feature_analysis      |-> feature_analysis,
          rules_activated       |-> rules,
          decision_pathway      |-> trace_decision_pathway(rules),
          confidence_assessment |-> assess_confidence(rules),
          similar_patterns      |-> Len(similar_claims),
          recommendations       |-> generate_recommendations(rules),
          counterfactuals       |-> generate_counterfactuals(claim) ]

-----------------------------------------------------------------------------
(* Inputs                                                                  *)

\* A variable that holds no value: no call has returned into it.
NoValue == << >>

Procedures == valid_procedures \cup { "Physical Therapy", "" }

Diagnoses == { "Common Cold", "Back Pain", "Allergies", "Anxiety" }

StateCodes ==
    { Code("C","A"), Code("c","a"), Code("W","Y"), Code("w","y"),
      Code("A","K"), Code("M","T"), Code("Z","Z"), << >> }

\* Every number an amount is compared with: the validator's range, the
\* thresholds and 1.5 times the thresholds.
AmountBoundaries ==
    { 1, 10000 } \cup { procedure_norms[p] : p \in valid_procedures }
                 \cup { (3 * procedure_norms[p]) \div 2 : p \in valid_procedures }

Amounts ==
    { b + d : b \in AmountBoundaries, d \in (0 - AmountDelta)..AmountDelta }
    \cup { 100, 200, 500, 15000 }

\* An optional value: the empty sequence, or one value of S.
Opt(S) == { << >> } \cup { <<x>> : x \in S }

\* The dict with `key` set when the optional value is there, the empty dict otherwise.
Field(key, o) == IF o = << >> THEN << >> ELSE key :> o[1]

MakeClaim(id, p, d, a, s) ==
    Field("claim_id", id) @@ Field("procedure_type", p) @@ Field("diagnosis", d)
    @@ Field("claim_amount", a) @@ Field("patient_state", s)

\* Claim dicts with any of the four analysed fields absent.
Claims ==
    { MakeClaim(<<"CLM-1">>, p, d, a, s) :
        p \in Opt(Procedures), d \in Opt(Diagnoses),
        a \in Opt(Amounts), s \in Opt(StateCodes) }

SimilarClaims == { << >>, << MakeClaim(<<"CLM-0">>, << >>, << >>, << >>, << >>) >> }

-----------------------------------------------------------------------------
(* The per-claim operations.  Every operation is a static method without   *)
(* state: a call reads the claim it is given and returns a value.  A       *)
(* behaviour starts from one claim and calls the operations on it, each    *)
(* once, in any order; op is the set of operations called so far.          *)

\* No value is held for the operations a specification does not call.
PairIdle == other_claim = NoValue /\ other_rules = NoValue
AggIdle  == /\ rules_activated = NoValue
            /\ decision_pathway = NoValue
            /\ confidence_assessment = NoValue
            /\ recommendations = NoValue
FairIdle == claims_df = NoValue /\ fairness_report = NoValue /\ alerts = NoValue
AuditIdle == /\ key_order = NoValue /\ other_order = NoValue
             /\ other_validation = NoValue /\ other_report = NoValue
             /\ audit_entry = NoValue /\ other_audit = NoValue
             /\ now = 0
BatchIdle == /\ batch = NoValue /\ class_tables = NoValue /\ pc = NoValue
             /\ frame = NoValue /\ error_lists = NoValue /\ rule_lists = NoValue
             /\ result = NoValue
AgentIdle == /\ seen = NoValue /\ tool_calls = NoValue
             /\ final_response_text = NoValue /\ run_pc = NoValue
             /\ returned = NoValue

Init ==
    /\ op = { }
    /\ claim_data \in Claims
    /\ validation = NoValue
    /\ report = NoValue
    /\ PairIdle /\ AggIdle /\ FairIdle /\ AuditIdle /\ BatchIdle /\ AgentIdle

ValidateClaimData ==
    /\ "validate_claim_data" \notin op
    /\ op' = op \cup { "validate_claim_data" }
    /\ validation' = validate_claim_data(claim_data)
    /\ UNCHANGED <<claim_data, report, pairVars, aggVars, fairVars,
                   auditVars, batchVars, agentVars>>

GenerateInterpretabilityReport ==
    /\ "generate_interpretability_report" \notin op
    /\ \E similar_claims \in SimilarClaims :
          report' = generate_interpretability_report(claim_data, similar_claims)
    /\ op' = op \cup { "generate_interpretability_report" }
    /\ UNCHANGED <<claim_data, validation, pairVars, aggVars, fairVars,
                   auditVars, batchVars, agentVars>>

Next == ValidateClaimData \/ GenerateInterpretabilityReport

Spec == Init /\ [][Next]_vars

-----------------------------------------------------------------------------
(* Properties of the per-claim operations (specification Spec)             *)

Validated == "validate_claim_data" \in op
Reported  == "generate_interpretability_report" \in op

\* The fields of the claim under analysis, read with the code's defaults.
TheProcedure == Get(claim_data, "procedure_type", None)
TheAmount    == Get(claim_data, "claim_amount", 0)

\* The max-normal thresholds as the specification lists them.
StatedThreshold(p) ==
    CASE p = "Virtual Consultation"  -> 450
      [] p = "Mental Health Session" -> 600
      [] p = "Prescription Refill"   -> 150
      [] p = "Follow-up Visit"       -> 360
      [] p = "Emergency Consult"     -> 900
      [] OTHER                       -> 0

KnownProcedure(p) ==
    p \in { "Virtual Consultation", "Mental Health Session", "Prescription Refill",
            "Follow-up Visit", "Emergency Consult" }

\* The positions of rule `id` in an activation list.
Positions(rules, id) == { i \in DOMAIN rules : rules[i].rule_id = id }

\* A score num/den lies in [0,1].
InUnitInterval(score) == score.den > 0 /\ 0 <= score.num /\ score.num <= score.den

\* C1 as stated: the confidence score of the report lies in [0,1], and it is
\* exactly 0 if and only if no rule activated for the claim.
C1_ScoreZeroIffNoRule ==
    Reported =>
        LET score == report.confidence_assessment.score
        IN  /\ InUnitInterval(score)
            /\ (score.num = 0 <=> Len(report.rules_activated) = 0)

\* C1 as amended: the confidence score of the report lies in [0,1]; it is
\* exactly 0 if and only if no activated rule has confidence High, which
\* covers the claim with no activation and the claim whose only activation
\* is a Medium HIGH_AMOUNT.
C1_ScoreZeroIffNoHighRule ==
    Reported =>
        LET score == report.confidence_assessment.score
            rules == report.rules_activated
        IN  /\ InUnitInterval(score)
            /\ (score.num = 0 <=> ~ \E i \in DOMAIN rules : rules[i].confidence = "High")
            /\ (Len(rules) = 0 => score.num = 0)

\* C1 witness: a claim whose only activation is a Medium HIGH_AMOUNT has score 0.
C1_Witness ==
    /\ Reported
    /\ Len(report.rules_activated) = 1
    /\ report.rules_activated[1].rule_id = "HIGH_AMOUNT"
    /\ report.rules_activated[1].confidence = "Medium"
    /\ report.confidence_assessment.score.num = 0

\* C2: HIGH_AMOUNT activates if and only if the amount is strictly above the
\* max-normal threshold of a known procedure (never for an unknown or absent
\* one), at most once, with confidence High if the amount is above 1.5 times
\* the threshold and Medium otherwise.
C2_HighAmountActivation ==
    Reported =>
        LET rules == report.rules_activated
            at    == Positions(rules, "HIGH_AMOUNT")
            t     == StatedThreshold(TheProcedure)
        IN  /\ Cardinality(at) <= 1
            /\ (at # { } <=> (KnownProcedure(TheProcedure) /\ TheAmount > t))
            /\ \A i \in at :
                  rules[i].confidence =
                      IF 2 * TheAmount > 3 * t THEN "High" ELSE "Medium"

\* C2 witness: an amount of exactly 1.5 times the threshold activates the rule
\* with confidence Medium.
C2_Witness ==
    /\ Reported
    /\ TheProcedure = "Virtual Consultation"
    /\ TheAmount = 675
    /\ \E i \in DOMAIN report.rules_activated :
          /\ report.rules_activated[i].rule_id = "HIGH_AMOUNT"
          /\ report.rules_activated[i].confidence = "Medium"

\* C3: whenever HIGH_AMOUNT activates, the percentage in its evidence is the
\* percentage by which the amount is above the threshold,
\* (amount/threshold - 1) x 100, to one decimal (in tenths of a percent here).
C3_EvidenceIsPercentAbove ==
    Reported =>
        \A i \in Positions(report.rules_activated, "HIGH_AMOUNT") :
            report.rules_activated[i].evidence[1] =
                RoundDiv((TheAmount - StatedThreshold(TheProcedure)) * 1000,
                         StatedThreshold(TheProcedure))

\* The messages of an error list, without the values they quote.
ErrorKinds(errors) == [i \in DOMAIN errors |-> errors[i].error]

\* The errors C4 expects for a claim: one per violated check, in the order
\* amount, state, procedure.
ExpectedErrorKinds(claim, procedure_violated) ==
    (IF Get(claim, "claim_amount", 0) < 1 \/ Get(claim, "claim_amount", 0) > 10000
     THEN <<"Invalid claim amount">> ELSE << >>)
    \o (IF Upper(Get(claim, "patient_state", << >>)) \notin VALID_STATES
        THEN <<"Invalid state code">> ELSE << >>)
    \o (IF procedure_violated THEN <<"Invalid procedure type">> ELSE << >>)

\* C4: validate_claim_data returns exactly one error per violated check and
\* none for a satisfied one, in the order amount, state, procedure: amount
\* outside [1,10000]; state not a valid code after uppercasing; procedure
\* present and not one of the 5 known procedures.  valid is true if and only
\* if the error list is empty.
C4_OneErrorPerViolatedCheck ==
    Validated =>
        /\ ErrorKinds(validation.errors) =
              ExpectedErrorKinds(claim_data,
                  /\ "procedure_type" \in DOMAIN claim_data
                  /\ ~ KnownProcedure(claim_data["procedure_type"]))
        /\ (validation.valid <=> Len(validation.errors) = 0)

\* C4 without the empty procedure name: the same statement with the procedure
\* check violated only by a non-empty name outside the 5 known procedures.
C4_HoldsForNonEmptyProcedure ==
    Validated =>
        /\ ErrorKinds(validation.errors) =
              ExpectedErrorKinds(claim_data,
                  /\ "procedure_type" \in DOMAIN claim_data
                  /\ claim_data["procedure_type"] # ""
                  /\ ~ KnownProcedure(claim_data["procedure_type"]))
        /\ (validation.valid <=> Len(validation.errors) = 0)

\* The thresholds generate_counterfactuals is specified to know.
StatedCounterfactualThreshold(p) ==
    CASE p = "Virtual Consultation"  -> 450
      [] p = "Mental Health Session" -> 600
      [] p = "Emergency Consult"     -> 900
      [] OTHER                       -> 0

\* C8: when a counterfactual is emitted, the safe amount it names (hundredths)
\* is 0.9 times the procedure's threshold and at or below it, and the claim
\* with that amount neither activates HIGH_AMOUNT nor gets a counterfactual.
C8_CounterfactualValid ==
    (Reported /\ Len(report.counterfactuals) > 0) =>
        LET safe  == report.counterfactuals[1].safe_amount
            t     == StatedThreshold(TheProcedure)
            safer == [claim_data EXCEPT !["claim_amount"] = safe \div 100]
        IN  /\ 10 * safe = 9 * (100 * t)
            /\ safe % 100 = 0
            /\ safe <= 100 * t
            /\ Positions(evaluate_business_rules(safer), "HIGH_AMOUNT") = { }
            /\ Len(generate_counterfactuals(safer)) = 0

\* C8 witness: the counterfactual of a 500 Virtual Consultation names 405.00.
C8_Witness ==
    /\ Reported
    /\ TheProcedure = "Virtual Consultation"
    /\ TheAmount = 500
    /\ Len(report.counterfactuals) = 1
    /\ report.counterfactuals[1].safe_amount = 40500

\* C9: generate_counterfactuals returns exactly one sentence if the procedure
\* is Virtual Consultation, Mental Health Session or Emergency Consult and
\* the amount is strictly above 450, 600 or 900, and nothing in every other
\* case.
C9_CounterfactualOnlyForConfigured ==
    Reported =>
        Len(report.counterfactuals) =
            IF /\ TheProcedure \in { "Virtual Consultation", "Mental Health Session",
                                     "Emergency Consult" }
               /\ TheAmount > StatedCounterfactualThreshold(TheProcedure)
            THEN 1 ELSE 0

\* C9 witness: a Prescription Refill that activates HIGH_AMOUNT gets no
\* counterfactual.
C9_Witness ==
    /\ Reported
    /\ TheProcedure = "Prescription Refill"
    /\ Positions(report.rules_activated, "HIGH_AMOUNT") # { }
    /\ Len(report.counterfactuals) = 0

-----------------------------------------------------------------------------
(* The aggregator operations on an arbitrary activation list               *)
(* (specification SpecAgg)                                                 *)

SeqsUpTo(S, n) == UNION { [1..k -> S] : k \in 0..n }

\* The three rule ids of the engine and one id of a rule added later.
RuleIds == { "UNUSUAL_COMBO", "HIGH_AMOUNT", "GEOGRAPHIC_RESTRICTION", "FREQUENT_CLAIMANT" }

\* Activation dicts, with the two keys the aggregator operations read.
Activations == [ rule_id : RuleIds, confidence : {"High", "Medium", "Low"} ]

\* Short lists of any activations, and longer lists that vary the confidence alone.
ActivationLists ==
    SeqsUpTo(Activations, MaxActs)
    \cup SeqsUpTo([ rule_id : {"HIGH_AMOUNT"}, confidence : {"High", "Medium"} ], MaxConf)

InitAgg ==
    /\ op = { }
    /\ rules_activated \in ActivationLists
    /\ decision_pathway = NoValue
    /\ confidence_assessment = NoValue
    /\ recommendations = NoValue
    /\ claim_data = NoValue /\ validation = NoValue /\ report = NoValue
    /\ PairIdle /\ FairIdle /\ AuditIdle /\ BatchIdle /\ AgentIdle

TraceDecisionPathway ==
    /\ "trace_decision_pathway" \notin op
    /\ op' = op \cup { "trace_decision_pathway" }
    /\ decision_pathway' = trace_decision_pathway(rules_activated)
    /\ UNCHANGED <<claimVars, pairVars, rules_activated, confidence_assessment,
                   recommendations, fairVars,
                   auditVars, batchVars, agentVars>>

AssessConfidence ==
    /\ "assess_confidence" \notin op
    /\ op' = op \cup { "assess_confidence" }
    /\ confidence_assessment' = assess_confidence(rules_activated)
    /\ UNCHANGED <<claimVars, pairVars, rules_activated, decision_pathway,
                   recommendations, fairVars,
                   auditVars, batchVars, agentVars>>

GenerateRecommendations ==
    /\ "generate_recommendations" \notin op
    /\ op' = op \cup { "generate_recommendations" }
    /\ recommendations' = generate_recommendations(rules_activated)
    /\ UNCHANGED <<claimVars, pairVars, rules_activated, decision_pathway,
                   confidence_assessment, fairVars,
                   auditVars, batchVars, agentVars>>

NextAgg == TraceDecisionPathway \/ AssessConfidence \/ GenerateRecommendations

SpecAgg == InitAgg /\ [][NextAgg]_vars

-----------------------------------------------------------------------------
(* Properties of the aggregator operations (specification SpecAgg)         *)

\* The rule ids present in an activation list.
IdsIn(rules) == { rules[i].rule_id : i \in DOMAIN rules }

\* One sentence per id present, in the order UNUSUAL_COMBO, HIGH_AMOUNT,
\* GEOGRAPHIC_RESTRICTION.
InPriorityOrder(ids, unusual, high, geographic) ==
    (IF "UNUSUAL_COMBO" \in ids THEN <<unusual>> ELSE << >>)
    \o (IF "HIGH_AMOUNT" \in ids THEN <<high>> ELSE << >>)
    \o (IF "GEOGRAPHIC_RESTRICTION" \in ids THEN <<geographic>> ELSE << >>)

\* The list with two entries exchanged, and the list with one entry repeated.
Rearrangements(rules) ==
    { [rules EXCEPT ![i] = rules[j], ![j] = rules[i]] : i, j \in DOMAIN rules }
    \cup { Append(rules, rules[i]) : i \in DOMAIN rules }

\* C6: for an activation list in any order and with any repetitions, the
\* pathway and the recommendations each hold exactly one fixed sentence per
\* distinct rule id present among the three, in priority order; exchanging or
\* repeating activations changes neither, and both have the same length.
C6_OneSentencePerDistinctRule ==
    ({"trace_decision_pathway", "generate_recommendations"} \subseteq op) =>
        LET ids == IdsIn(rules_activated)
        IN  /\ decision_pathway =
                  InPriorityOrder(ids,
                      "Primary trigger: Unusual diagnosis-procedure combination",
                      "Supporting factor: Abnormally high claim amount",
                      "Geographic constraint violation")
            /\ recommendations =
                  InPriorityOrder(ids,
                      "Review medical necessity of procedure-diagnosis combination",
                      "Verify procedure coding and duration justification",
                      "Confirm patient residency and coverage eligibility")
            /\ Len(decision_pathway) = Len(recommendations)
            /\ \A r \in Rearrangements(rules_activated) :
                  /\ trace_decision_pathway(r) = decision_pathway
                  /\ generate_recommendations(r) = recommendations

\* C6 witness: a list out of priority order with a repeated rule id gets two
\* sentences, UNUSUAL_COMBO's first.
C6_Witness ==
    /\ {"trace_decision_pathway", "generate_recommendations"} \subseteq op
    /\ Len(rules_activated) = 3
    /\ rules_activated[1].rule_id = "GEOGRAPHIC_RESTRICTION"
    /\ rules_activated[2].rule_id = "UNUSUAL_COMBO"
    /\ rules_activated[3].rule_id = "GEOGRAPHIC_RESTRICTION"
    /\ Len(decision_pathway) = 2
    /\ decision_pathway[1] = "Primary trigger: Unusual diagnosis-procedure combination"
    /\ Len(recommendations) = 2

\* C7: for a list with h High entries out of n, assess_confidence returns Low
\* with score 0 and reason 'No rules activated' when n = 0, and otherwise
\* score h/n with level High iff h/n >= 0.7, Medium iff 0.4 <= h/n < 0.7 and
\* Low iff h/n < 0.4.
C7_ConfidenceLevels ==
    ("assess_confidence" \in op) =>
        LET n == Len(rules_activated)
            h == Cardinality({ i \in 1..n : rules_activated[i].confidence = "High" })
            a == confidence_assessment
        IN  IF n = 0
            THEN a.level = "Low" /\ a.score.num = 0 /\ a.reason.text = "No rules activated"
            ELSE /\ a.score.num * n = h * a.score.den
                 /\ a.score.den # 0
                 /\ a.reason.text # "No rules activated"
                 /\ a.level \in {"High", "Medium", "Low"}
                 /\ (a.level = "High"   <=> 10 * h >= 7 * n)
                 /\ (a.level = "Medium" <=> (10 * h >= 4 * n /\ 10 * h < 7 * n))
                 /\ (a.level = "Low"    <=> 10 * h < 4 * n)

\* C7 witness: all three rules with a Medium HIGH_AMOUNT (2 High of 3) is Medium.
C7_Witness ==
    /\ "assess_confidence" \in op
    /\ IdsIn(rules_activated) = {"UNUSUAL_COMBO", "HIGH_AMOUNT", "GEOGRAPHIC_RESTRICTION"}
    /\ Len(rules_activated) = 3
    /\ \A i \in 1..3 : rules_activated[i].confidence =
                          IF rules_activated[i].rule_id = "HIGH_AMOUNT"
                          THEN "Medium" ELSE "High"
    /\ confidence_assessment.level = "Medium"

-----------------------------------------------------------------------------
(* evaluate_business_rules on two claims (specification SpecPair)          *)

\* The fields each rule's trigger condition reads.
TriggerFields(rule_id) ==
    CASE rule_id = "UNUSUAL_COMBO"          -> { "procedure_type", "diagnosis" }
      [] rule_id = "HIGH_AMOUNT"            -> { "procedure_type", "claim_amount" }
      [] rule_id = "GEOGRAPHIC_RESTRICTION" -> { "patient_state", "procedure_type" }

EngineRules == { "UNUSUAL_COMBO", "HIGH_AMOUNT", "GEOGRAPHIC_RESTRICTION" }

\* The optional value a dict holds for a key.
OptOf(d, key) == IF key \in DOMAIN d THEN <<d[key]>> ELSE << >>

\* Two dicts agree on a set of keys: each key is absent from both or has the
\* same value in both.
AgreeOn(d1, d2, keys) == \A k \in keys : OptOf(d1, k) = OptOf(d2, k)

PairProcedures == { "Virtual Consultation", "Mental Health Session", "Physical Therapy" }
PairDiagnoses  == { "Common Cold", "Anxiety" }
PairAmounts    == { 100, 451, 675, 676, 1500 }
PairStateCodes == { Code("C","A"), Code("W","Y"), Code("w","y") }

PairClaims ==
    { MakeClaim(<<"CLM-1">>, p, d, a, s) :
        p \in Opt(PairProcedures), d \in Opt(PairDiagnoses),
        a \in Opt(PairAmounts), s \in Opt(PairStateCodes) }

\* The values a second claim may take for a key: the first claim's when the
\* key is kept, any otherwise.
Varied(claim, key, keep, values) ==
    IF key \in keep THEN { OptOf(claim, key) } ELSE Opt(values)

\* The second claims that agree with `claim` on the trigger fields of some rule.
Variations(claim) ==
    UNION { { MakeClaim(<<"CLM-2">>, p, d, a, s) :
                p \in Varied(claim, "procedure_type", TriggerFields(b), PairProcedures),
                d \in Varied(claim, "diagnosis", TriggerFields(b), PairDiagnoses),
                a \in Varied(claim, "claim_amount", TriggerFields(b), PairAmounts),
                s \in Varied(claim, "patient_state", TriggerFields(b), PairStateCodes) } :
            b \in EngineRules }

InitPair ==
    /\ op = { }
    /\ claim_data \in PairClaims
    /\ other_claim \in Variations(claim_data)
    /\ rules_activated = NoValue
    /\ other_rules = NoValue
    /\ validation = NoValue /\ report = NoValue
    /\ decision_pathway = NoValue
    /\ confidence_assessment = NoValue
    /\ recommendations = NoValue
    /\ FairIdle /\ AuditIdle /\ BatchIdle /\ AgentIdle

EvaluateBusinessRules ==
    /\ "evaluate_business_rules" \notin op
    /\ op' = op \cup { "evaluate_business_rules" }
    /\ rules_activated' = evaluate_business_rules(claim_data)
    /\ UNCHANGED <<claimVars, pairVars, decision_pathway, confidence_assessment,
                   recommendations, fairVars,
                   auditVars, batchVars, agentVars>>

EvaluateOtherClaim ==
    /\ "evaluate_business_rules" \in op
    /\ "evaluate_business_rules(other)" \notin op
    /\ op' = op \cup { "evaluate_business_rules(other)" }
    /\ other_rules' = evaluate_business_rules(other_claim)
    /\ UNCHANGED <<claimVars, other_claim, aggVars, fairVars,
                   auditVars, batchVars, agentVars>>

NextPair == EvaluateBusinessRules \/ EvaluateOtherClaim

SpecPair == InitPair /\ [][NextPair]_vars

\* What a rule did on a claim: the confidences of its activations (none when
\* it did not activate).
Outcome(rules, rule_id) ==
    [ count |-> Cardinality(Positions(rules, rule_id)),
      confidences |-> { rules[i].confidence : i \in Positions(rules, rule_id) } ]

BothEvaluated == "evaluate_business_rules(other)" \in op

\* C5: for each rule B and any two claims that agree on the fields of B's
\* trigger condition, B activates on both or on neither and with the same
\* confidence, whatever the other rules do on either claim.
C5_RuleIndependence ==
    BothEvaluated =>
        \A b \in EngineRules :
            AgreeOn(claim_data, other_claim, TriggerFields(b)) =>
                Outcome(rules_activated, b) = Outcome(other_rules, b)

\* C5 witness: two claims with the same procedure and amount both activate
\* HIGH_AMOUNT with the same confidence while UNUSUAL_COMBO activates on the
\* first only.
C5_Witness ==
    /\ BothEvaluated
    /\ AgreeOn(claim_data, other_claim, TriggerFields("HIGH_AMOUNT"))
    /\ Positions(rules_activated, "UNUSUAL_COMBO") # { }
    /\ Positions(other_rules, "UNUSUAL_COMBO") = { }
    /\ Positions(rules_activated, "HIGH_AMOUNT") # { }
    /\ Positions(other_rules, "HIGH_AMOUNT") # { }

-----------------------------------------------------------------------------
(* check_demographic_fairness and generate_disparity_alerts                *)
(* (specification SpecFair)                                                *)
(*                                                                         *)
(* A DataFrame is its set of columns and its rows, each row a dict over    *)
(* those columns.  A float that is a quotient of counts is kept as the     *)
(* reduced fraction [num, den]; 1/0 is float('inf') and 0/0 is NaN (the    *)
(* max() and min() of no group).                                           *)

RECURSIVE GCD(_, _)
GCD(a, b) == IF b = 0 THEN a ELSE GCD(b, a % b)

\* The fraction n/d in lowest terms (n, d >= 0).
Fraction(n, d) ==
    LET g == GCD(n, d)
    IN  IF g = 0 THEN [num |-> 0, den |-> 0] ELSE [num |-> n \div g, den |-> d \div g]

Infinity == Fraction(1, 0)
NaN      == Fraction(0, 0)
One      == Fraction(1, 1)

\* x <= y for two rates (fractions with den > 0)
RateLeq(x, y) == x.num * y.den <= y.num * x.den

\* claims_df.groupby(key)['is_outlier'].mean(): group value -> rate
GroupRates(df, key) ==
    LET groups == { df.rows[i][key] : i \in DOMAIN df.rows }
    IN  [ g \in groups |->
            LET members == { i \in DOMAIN df.rows : df.rows[i][key] = g }
            IN  Fraction(Cardinality({ i \in members : df.rows[i]["is_outlier"] }),
                         Cardinality(members)) ]

\* Series.max() and Series.min(): NaN for a series without entries
SeriesMax(rates) ==
    IF DOMAIN rates = { } THEN NaN
    ELSE rates[CHOOSE g \in DOMAIN rates : \A h \in DOMAIN rates : RateLeq(rates[h], rates[g])]

SeriesMin(rates) ==
    IF DOMAIN rates = { } THEN NaN
    ELSE rates[CHOOSE g \in DOMAIN rates : \A h \in DOMAIN rates : RateLeq(rates[g], rates[h])]

\* The sub-report with the ratio 1.0, for infinity, when min() is not above 0.
Disparities_ratioOneAtZero(df, key) ==
    LET rates == GroupRates(df, key)
        hi    == SeriesMax(rates)
        lo    == SeriesMin(rates)
    IN  [ max_rate |-> hi,
          min_rate |-> lo,
          ratio    |-> IF lo.num > 0
                       THEN Fraction(hi.num * lo.den, hi.den * lo.num)
                       ELSE One ]

\* The sub-report of one grouping column.  min() > 0 is false for 0 and for
\* NaN, and the ratio is then infinity.
Disparities(df, key) ==
    LET rates == GroupRates(df, key)
        hi    == SeriesMax(rates)
        lo    == SeriesMin(rates)
    IN  [ max_rate |-> hi,
          min_rate |-> lo,
          ratio    |-> IF lo.num > 0
                       THEN Fraction(hi.num * lo.den, hi.den * lo.num)
                       ELSE Infinity ]

check_demographic_fairness(df) ==
    (IF "is_outlier" \in df.columns /\ "patient_state" \in df.columns
     THEN "state_disparities" :> Disparities(df, "patient_state") ELSE << >>)
    @@ (IF "is_outlier" \in df.columns /\ "provider_name" \in df.columns
        THEN "provider_disparities" :> Disparities(df, "provider_name") ELSE << >>)

\* ratio >= k, for ratio > k.
RatioAbove_inclusive(ratio, k) ==
    IF ratio.den = 0 THEN ratio.num > 0 ELSE ratio.num >= k * ratio.den

\* ratio > k for a float ratio and a whole number k; infinity exceeds every k
RatioAbove(ratio, k) ==
    IF ratio.den = 0 THEN ratio.num > 0 ELSE ratio.num > k * ratio.den

\* fairness_report.get(name, {}).get('ratio', 1.0)
RatioOf(fairness, name) ==
    IF name \in DOMAIN fairness THEN fairness[name].ratio ELSE One

generate_disparity_alerts(fairness) ==
    LET state_ratio    == RatioOf(fairness, "state_disparities")
        provider_ratio == RatioOf(fairness, "provider_disparities")
    IN  (IF RatioAbove(state_ratio, 2)
         THEN << [alert |-> "HIGH DISPARITY: State outlier rates vary by",
                  ratio |-> state_ratio] >>
         ELSE << >>)
        \o (IF RatioAbove(provider_ratio, 3)
            THEN << [alert |-> "HIGH DISPARITY: Provider outlier rates vary by",
                     ratio |-> provider_ratio] >>
            ELSE << >>)

\* The columns a batch may have, and the rows of a batch with all of them.
BatchColumns == { "is_outlier", "patient_state", "provider_name" }

BatchRows ==
    [ is_outlier : BOOLEAN,
      patient_state : { Code("C","A"), Code("N","Y") },
      provider_name : { "TeleHealth Inc", "VirtualCare Co" } ]

\* A batch starts as an empty DataFrame with any choice of columns.
InitFair ==
    /\ op = { }
    /\ claims_df \in { [columns |-> cols, rows |-> << >>] : cols \in SUBSET BatchColumns }
    /\ fairness_report = NoValue
    /\ alerts = NoValue
    /\ claim_data = NoValue /\ validation = NoValue /\ report = NoValue
    /\ PairIdle /\ AggIdle /\ AuditIdle /\ BatchIdle /\ AgentIdle

\* The upstream decision loop adds a decided claim to the batch, up to
\* MaxRows rows, before the monitor is run.
AddRow ==
    /\ op = { }
    /\ Len(claims_df.rows) < MaxRows
    /\ \E r \in BatchRows :
          claims_df' = [claims_df EXCEPT
                          !.rows = Append(@, [k \in claims_df.columns |-> r[k]])]
    /\ UNCHANGED <<op, claimVars, pairVars, aggVars, fairness_report, alerts,
                   auditVars, batchVars, agentVars>>

CheckDemographicFairness ==
    /\ "check_demographic_fairness" \notin op
    /\ op' = op \cup { "check_demographic_fairness" }
    /\ fairness_report' = check_demographic_fairness(claims_df)
    /\ UNCHANGED <<claimVars, pairVars, aggVars, claims_df, alerts,
                   auditVars, batchVars, agentVars>>

GenerateDisparityAlerts ==
    /\ "check_demographic_fairness" \in op
    /\ "generate_disparity_alerts" \notin op
    /\ op' = op \cup { "generate_disparity_alerts" }
    /\ alerts' = generate_disparity_alerts(fairness_report)
    /\ UNCHANGED <<claimVars, pairVars, aggVars, claims_df, fairness_report,
                   auditVars, batchVars, agentVars>>

NextFair == AddRow \/ CheckDemographicFairness \/ GenerateDisparityAlerts

SpecFair == InitFair /\ [][NextFair]_vars

-----------------------------------------------------------------------------
(* Properties of the fairness monitor (specification SpecFair)             *)

Alerted == "generate_disparity_alerts" \in op

\* The two dimensions: grouping column, sub-report and alert text.
Dimensions ==
    { [column |-> "patient_state", name |-> "state_disparities",
       alert |-> "HIGH DISPARITY: State outlier rates vary by"],
      [column |-> "provider_name", name |-> "provider_disparities",
       alert |-> "HIGH DISPARITY: Provider outlier rates vary by"] }

\* The outliers and the rows of each group of a column of the batch,
\* counted from the rows.
GroupsOf(column) == { claims_df.rows[i][column] : i \in DOMAIN claims_df.rows }
OutliersIn(column, g) ==
    Cardinality({ i \in DOMAIN claims_df.rows :
                    claims_df.rows[i][column] = g /\ claims_df.rows[i]["is_outlier"] })
RowsIn(column, g) ==
    Cardinality({ i \in DOMAIN claims_df.rows : claims_df.rows[i][column] = g })

\* The batch has the dimension's columns and at least one group.
HasGroups(dim) ==
    /\ { "is_outlier", dim.column } \subseteq claims_df.columns
    /\ GroupsOf(dim.column) # { }

AllGroupsSameRate(dim) ==
    \A g, h \in GroupsOf(dim.column) :
        OutliersIn(dim.column, g) * RowsIn(dim.column, h)
            = OutliersIn(dim.column, h) * RowsIn(dim.column, g)

SomeGroupAtZero(dim) == \E g \in GroupsOf(dim.column) : OutliersIn(dim.column, g) = 0

AlertFor(dim) == \E i \in DOMAIN alerts : alerts[i].alert = dim.alert

\* C10 as stated: when all groups of a dimension have the identical outlier
\* rate the ratio is 1.0 and no alert is raised for it; when at least one
\* group has rate 0 the ratio is infinity and the alert fires.
C10_SameRateOneZeroRateInfinity ==
    Alerted =>
        \A dim \in Dimensions :
            HasGroups(dim) =>
                /\ AllGroupsSameRate(dim) =>
                      (fairness_report[dim.name].ratio = One /\ ~ AlertFor(dim))
                /\ SomeGroupAtZero(dim) =>
                      (fairness_report[dim.name].ratio = Infinity /\ AlertFor(dim))

\* C10 as amended: when all groups of a dimension have the identical non-zero
\* outlier rate the ratio is 1.0 and no alert is raised for it; when at least
\* one group has rate 0, also when every group has, the ratio is infinity and
\* the alert fires.
C10_SameNonZeroRateOneZeroRateInfinity ==
    Alerted =>
        \A dim \in Dimensions :
            HasGroups(dim) =>
                /\ (AllGroupsSameRate(dim) /\ ~ SomeGroupAtZero(dim)) =>
                      (fairness_report[dim.name].ratio = One /\ ~ AlertFor(dim))
                /\ SomeGroupAtZero(dim) =>
                      (fairness_report[dim.name].ratio = Infinity /\ AlertFor(dim))

\* C10 witness: a batch of two states without any outlier gets the ratio
\* infinity and the state alert.
C10_Witness ==
    /\ Alerted
    /\ { "is_outlier", "patient_state" } \subseteq claims_df.columns
    /\ Cardinality(GroupsOf("patient_state")) = 2
    /\ \A i \in DOMAIN claims_df.rows : ~ claims_df.rows[i]["is_outlier"]
    /\ fairness_report["state_disparities"].ratio = Infinity
    /\ \E i \in DOMAIN alerts :
          alerts[i].alert = "HIGH DISPARITY: State outlier rates vary by"

\* C10 second witness: two states with the same rate 1/2 get the ratio 1.0 and no alert.
C10_WitnessSameRate ==
    /\ Alerted
    /\ { "is_outlier", "patient_state" } \subseteq claims_df.columns
    /\ Cardinality(GroupsOf("patient_state")) = 2
    /\ \A g \in GroupsOf("patient_state") :
          OutliersIn("patient_state", g) = 1 /\ RowsIn("patient_state", g) = 2
    /\ fairness_report["state_disparities"].ratio = One
    /\ alerts = << >>

\* The positions of an alert text in the alert list.
AlertPositions(text) == { i \in DOMAIN alerts : alerts[i].alert = text }

\* A ratio is strictly above the whole number k (infinity is).
StrictlyAbove(ratio, k) == ratio = Infinity \/ (ratio.den > 0 /\ ratio.num > k * ratio.den)

\* C11: the state alert is emitted if and only if the report has a state
\* sub-report whose ratio is strictly above 2.0, the provider alert if and
\* only if it has a provider sub-report whose ratio is strictly above 3.0; a
\* dimension whose outlier flag or grouping column is absent from the batch
\* has no sub-report and never alerts; there is at most one alert per
\* dimension, the state alert first.
C11_AlertsStrictlyAboveMultiplier ==
    Alerted =>
        LET state    == AlertPositions("HIGH DISPARITY: State outlier rates vary by")
            provider == AlertPositions("HIGH DISPARITY: Provider outlier rates vary by")
        IN  /\ ("state_disparities" \in DOMAIN fairness_report
                  <=> {"is_outlier", "patient_state"} \subseteq claims_df.columns)
            /\ ("provider_disparities" \in DOMAIN fairness_report
                  <=> {"is_outlier", "provider_name"} \subseteq claims_df.columns)
            /\ (state # { } <=>
                  (/\ "state_disparities" \in DOMAIN fairness_report
                   /\ StrictlyAbove(fairness_report["state_disparities"].ratio, 2)))
            /\ (provider # { } <=>
                  (/\ "provider_disparities" \in DOMAIN fairness_report
                   /\ StrictlyAbove(fairness_report["provider_disparities"].ratio, 3)))
            /\ Cardinality(state) <= 1 /\ Cardinality(provider) <= 1
            /\ state \cup provider = DOMAIN alerts
            /\ \A i \in state, j \in provider : i < j

\* C11 witness: a provider ratio of exactly 3.0 raises no provider alert
\* while a state ratio of infinity raises the state alert.
C11_Witness ==
    /\ Alerted
    /\ "provider_disparities" \in DOMAIN fairness_report
    /\ fairness_report["provider_disparities"].ratio = Fraction(3, 1)
    /\ AlertPositions("HIGH DISPARITY: Provider outlier rates vary by") = { }
    /\ "state_disparities" \in DOMAIN fairness_report
    /\ fairness_report["state_disparities"].ratio = Infinity
    /\ AlertPositions("HIGH DISPARITY: State outlier rates vary by") = { 1 }

\* C11 second witness: a batch without the outlier flag has no sub-report and no alert.
C11_WitnessNoFlag ==
    /\ Alerted
    /\ "is_outlier" \notin claims_df.columns
    /\ Len(claims_df.rows) > 0
    /\ DOMAIN fairness_report = { }
    /\ alerts = << >>

-----------------------------------------------------------------------------
(* Further properties of the per-claim operations (specification Spec)     *)

\* The four known-invalid (procedure, diagnosis) pairs.
KnownInvalidPairs ==
    { <<"Mental Health Session", "Common Cold">>,
      <<"Mental Health Session", "Back Pain">>,
      <<"Emergency Consult", "Allergies">>,
      <<"Emergency Consult", "Common Cold">> }

\* The restricted state codes WY, AK and MT.
StatedRestrictedStates == { Code("W","Y"), Code("A","K"), Code("M","T") }

\* The rule ids of an activation list, in order.
RuleIdsOf(rules) == [i \in DOMAIN rules |-> rules[i].rule_id]

\* C16: the activation list of a claim holds exactly the rules whose trigger
\* holds, each once, in the order UNUSUAL_COMBO, HIGH_AMOUNT,
\* GEOGRAPHIC_RESTRICTION: UNUSUAL_COMBO if and only if (procedure, diagnosis)
\* is a known-invalid pair, HIGH_AMOUNT if and only if the amount is above the
\* threshold of a known procedure, GEOGRAPHIC_RESTRICTION if and only if the
\* state is WY, AK or MT and the procedure is Virtual Consultation; the first
\* and the last always carry confidence High.
C16_ExactlyTheTriggeredRulesInOrder ==
    Reported =>
        LET rules == report.rules_activated
            combo == <<TheProcedure, Get(claim_data, "diagnosis", None)>> \in KnownInvalidPairs
            high  == KnownProcedure(TheProcedure) /\ TheAmount > StatedThreshold(TheProcedure)
            geo   == /\ Get(claim_data, "patient_state", << >>) \in StatedRestrictedStates
                     /\ TheProcedure = "Virtual Consultation"
        IN  /\ RuleIdsOf(rules) =
                  (IF combo THEN <<"UNUSUAL_COMBO">> ELSE << >>)
                  \o (IF high THEN <<"HIGH_AMOUNT">> ELSE << >>)
                  \o (IF geo THEN <<"GEOGRAPHIC_RESTRICTION">> ELSE << >>)
            /\ \A i \in DOMAIN rules :
                  rules[i].rule_id \in { "UNUSUAL_COMBO", "GEOGRAPHIC_RESTRICTION" }
                      => rules[i].confidence = "High"

\* C16 witness: a 451 Virtual Consultation from MT activates HIGH_AMOUNT
\* (Medium) and then GEOGRAPHIC_RESTRICTION (High), and a Physical Therapy
\* claim from a restricted state would activate nothing.
C16_Witness ==
    /\ Reported
    /\ TheProcedure = "Virtual Consultation"
    /\ TheAmount = 451
    /\ Get(claim_data, "patient_state", << >>) = Code("M","T")
    /\ RuleIdsOf(report.rules_activated) = <<"HIGH_AMOUNT", "GEOGRAPHIC_RESTRICTION">>
    /\ report.rules_activated[2].confidence = "High"

\* C16 witness: all three rules cannot activate together (no known-invalid
\* pair has the procedure Virtual Consultation), two of them in order can.
C16_WitnessComboThenHigh ==
    /\ Reported
    /\ RuleIdsOf(report.rules_activated) = <<"UNUSUAL_COMBO", "HIGH_AMOUNT">>
    /\ Get(claim_data, "patient_state", << >>) = Code("W","Y")

\* C19: in every report, for a known procedure threshold_violation of the
\* procedure analysis is true if and only if HIGH_AMOUNT is activated, and a
\* counterfactual is there only if HIGH_AMOUNT is activated; for an unknown
\* procedure the procedure analysis is empty, HIGH_AMOUNT is absent and there
\* is no counterfactual.
C19_ReportInternallyConsistent ==
    Reported =>
        LET analysis == report.feature_analysis.procedure_analysis
            high     == Positions(report.rules_activated, "HIGH_AMOUNT") # { }
        IN  /\ KnownProcedure(TheProcedure) =>
                  /\ DOMAIN analysis # { }
                  /\ analysis.threshold_violation <=> high
            /\ Len(report.counterfactuals) > 0 => high
            /\ ~ KnownProcedure(TheProcedure) =>
                  /\ DOMAIN analysis = { }
                  /\ ~ high
                  /\ Len(report.counterfactuals) = 0

\* C19 witness: a Mental Health Session of exactly 600 is at the maximum of
\* all three tables: no violation, no HIGH_AMOUNT, no counterfactual.
C19_Witness ==
    /\ Reported
    /\ TheProcedure = "Mental Health Session"
    /\ TheAmount = 600
    /\ ~ report.feature_analysis.procedure_analysis.threshold_violation
    /\ Positions(report.rules_activated, "HIGH_AMOUNT") = { }
    /\ Len(report.counterfactuals) = 0

\* C19 witness: one above the maximum all three agree the other way.
C19_WitnessAbove ==
    /\ Reported
    /\ TheProcedure = "Mental Health Session"
    /\ TheAmount = 601
    /\ report.feature_analysis.procedure_analysis.threshold_violation
    /\ Positions(report.rules_activated, "HIGH_AMOUNT") # { }
    /\ Len(report.counterfactuals) = 1

\* C19 witness: an unknown procedure with an amount above every threshold.
C19_WitnessUnknown ==
    /\ Reported
    /\ TheProcedure = "Physical Therapy"
    /\ TheAmount = 15000
    /\ DOMAIN report.feature_analysis.procedure_analysis = { }
    /\ report.rules_activated = << >>

-----------------------------------------------------------------------------
(* Letter case of patient_state (specification SpecPair)                   *)

\* Two claims differ at most in the letter case of patient_state.
SameUpToStateCase(c1, c2) ==
    /\ AgreeOn(c1, c2, { "procedure_type", "diagnosis", "claim_amount" })
    /\ "patient_state" \in DOMAIN c1 /\ "patient_state" \in DOMAIN c2
    /\ Upper(c1["patient_state"]) = Upper(c2["patient_state"])

\* C18: two claims that differ only in the letter case of patient_state get
\* the same validation result and the same GEOGRAPHIC_RESTRICTION activation,
\* and a Virtual Consultation whose state passes validation and is WY, AK or
\* MT in some letter case activates GEOGRAPHIC_RESTRICTION.
C18_StateCaseConsistent ==
    BothEvaluated =>
        /\ SameUpToStateCase(claim_data, other_claim) =>
              /\ validate_claim_data(claim_data) = validate_claim_data(other_claim)
              /\ Outcome(rules_activated, "GEOGRAPHIC_RESTRICTION")
                    = Outcome(other_rules, "GEOGRAPHIC_RESTRICTION")
        /\ ( /\ StateErrors(claim_data) = << >>
             /\ Upper(Get(claim_data, "patient_state", << >>)) \in StatedRestrictedStates
             /\ Get(claim_data, "procedure_type", None) = "Virtual Consultation" )
              => Positions(rules_activated, "GEOGRAPHIC_RESTRICTION") # { }

\* The validation half of C18 alone: the validator uppercases the state, so
\* the letter case never changes its result.
C18_ValidationIgnoresStateCase ==
    BothEvaluated =>
        ( SameUpToStateCase(claim_data, other_claim) =>
              validate_claim_data(claim_data) = validate_claim_data(other_claim) )

\* The two claims of C18's example: Virtual Consultations from 'WY' and 'wy',
\* both valid, the rule activated on the first only.
C18_CaseEscapes ==
    /\ BothEvaluated
    /\ SameUpToStateCase(claim_data, other_claim)
    /\ claim_data["patient_state"] = Code("W","Y")
    /\ other_claim["patient_state"] = Code("w","y")
    /\ Get(claim_data, "procedure_type", None) = "Virtual Consultation"
    /\ StateErrors(claim_data) = << >> /\ StateErrors(other_claim) = << >>
    /\ Positions(rules_activated, "GEOGRAPHIC_RESTRICTION") # { }
    /\ Positions(other_rules, "GEOGRAPHIC_RESTRICTION") = { }

-----------------------------------------------------------------------------
(* create_audit_log (specification SpecAudit)                              *)
(*                                                                         *)
(* A dict keeps its keys in insertion order: the order is carried next to  *)
(* the function that holds the values.  The hex digest of a text is the    *)
(* record [md5_of |-> text]: equal texts have equal digests, and the       *)
(* different texts of the model are taken to have different digests.       *)

\* Every key a claim record of the model carries, in the order of Python's
\* string comparison, which is the order sort_keys=True writes them in.
KeysInStringOrder ==
    <<"claim_amount", "claim_id", "claim_status", "diagnosis",
      "patient_state", "procedure_type">>

KeysOf(order) == { order[i] : i \in DOMAIN order }

\* sorted(keys)
sorted(keys) == SelectSeq(KeysInStringOrder, LAMBDA k : k \in keys)

\* json.dumps(claim_data) without sort_keys: the items in insertion order.
json_dumps_insertionOrder(d, order) ==
    [i \in DOMAIN order |-> <<order[i], d[order[i]]>>]

\* json.dumps(claim_data, sort_keys=True) of the fields the engine reads only.
json_dumps_knownFields(d, order) ==
    LET keys == sorted(KeysOf(order) \ { "claim_status" })
    IN  [i \in DOMAIN keys |-> <<keys[i], d[keys[i]]>>]

\* json.dumps(claim_data, sort_keys=True): the text is the sequence of
\* (key, value) items with the keys sorted.
json_dumps(d, order) ==
    LET keys == sorted(KeysOf(order))
    IN  [i \in DOMAIN keys |-> <<keys[i], d[keys[i]]>>]

\* hashlib.md5(text.encode()).hexdigest()
md5(text) == [md5_of |-> text]

\* create_audit_log with the validation result recorded only for a claim
\* that activated a rule.
create_audit_log_statusWhenFlagged(claim, order, rules, decision, utcnow) ==
    [ timestamp         |-> utcnow,
      claim_id          |-> Get(claim, "claim_id", None),
      decision          |-> decision,
      rules_activated   |-> [i \in DOMAIN rules |-> rules[i].rule_id],
      confidence_scores |-> [i \in DOMAIN rules |-> Get(rules[i], "confidence", "Unknown")],
      decision_pathway  |-> trace_decision_pathway(rules),
      system_version    |-> "1.0",
      audit_hash        |-> md5(json_dumps(claim, order)),
      validation_status |-> IF rules = << >> THEN [valid |-> TRUE, errors |-> << >>]
                            ELSE validate_claim_data(claim) ]

create_audit_log(claim, order, rules, decision, utcnow) ==
    [ timestamp         |-> utcnow,
      claim_id          |-> Get(claim, "claim_id", None),
      decision          |-> decision,
      rules_activated   |-> [i \in DOMAIN rules |-> rules[i].rule_id],
      confidence_scores |-> [i \in DOMAIN rules |-> Get(rules[i], "confidence", "Unknown")],
      decision_pathway  |-> trace_decision_pathway(rules),
      system_version    |-> "1.0",
      audit_hash        |-> md5(json_dumps(claim, order)),
      validation_status |-> validate_claim_data(claim) ]

\* The order in which create_insurance_dataset inserts the keys of a claim.
GenerationOrder ==
    <<"claim_id", "procedure_type", "diagnosis", "claim_amount",
      "patient_state", "claim_status">>

\* Every insertion order of a set of keys.
Orderings(keys) ==
    { o \in [1..Cardinality(keys) -> keys] :
        \A i, j \in 1..Cardinality(keys) : i # j => o[i] # o[j] }

AuditProcedures == { "Virtual Consultation", "Physical Therapy" }
AuditAmounts    == { 500, 10001 }
AuditStateCodes == { Code("W","Y"), Code("Z","Z") }

\* Claims with and without claim_id, valid and invalid.
AuditClaims ==
    { MakeClaim(id, <<p>>, << >>, <<a>>, <<s>>) :
        id \in Opt({ "CLM-1" }), p \in AuditProcedures,
        a \in AuditAmounts, s \in AuditStateCodes }

\* The claim with a field the engine does not know (the dataset's claim_status).
WithExtraField(claim) == claim @@ ("claim_status" :> "Pending")

Decisions == { "Approved", "Pending" }

\* The first claim has the keys in generation order; the second claim has the
\* same field values, with or without an extra field, in any insertion order.
InitAudit ==
    /\ op = { }
    /\ claim_data \in AuditClaims
    /\ key_order = SelectSeq(GenerationOrder, LAMBDA k : k \in DOMAIN claim_data)
    /\ other_claim \in { claim_data, WithExtraField(claim_data) }
    /\ other_order \in Orderings(DOMAIN other_claim)
    /\ validation = NoValue /\ report = NoValue
    /\ other_validation = NoValue /\ other_report = NoValue
    /\ audit_entry = NoValue /\ other_audit = NoValue
    /\ other_rules = NoValue
    /\ now = 0
    /\ AggIdle /\ FairIdle /\ BatchIdle /\ AgentIdle

\* create_audit_log on the first claim with the activations of its report.
CreateAuditLog ==
    /\ "generate_interpretability_report" \in op
    /\ "create_audit_log" \notin op
    /\ op' = op \cup { "create_audit_log" }
    /\ \E decision \in Decisions :
          audit_entry' = create_audit_log(claim_data, key_order,
                                          report.rules_activated, decision, now)
    /\ now' = now + 1
    /\ UNCHANGED <<claimVars, pairVars, aggVars, fairVars, key_order, other_order,
                   other_validation, other_report, other_audit, batchVars, agentVars>>

ValidateOtherClaim ==
    /\ "validate_claim_data(other)" \notin op
    /\ op' = op \cup { "validate_claim_data(other)" }
    /\ other_validation' = validate_claim_data(other_claim)
    /\ UNCHANGED <<claimVars, pairVars, aggVars, fairVars, key_order, other_order,
                   other_report, audit_entry, other_audit, now, batchVars, agentVars>>

ReportOtherClaim ==
    /\ "validate_claim_data(other)" \in op
    /\ "generate_interpretability_report(other)" \notin op
    /\ op' = op \cup { "generate_interpretability_report(other)" }
    /\ \E similar_claims \in SimilarClaims :
          other_report' = generate_interpretability_report(other_claim, similar_claims)
    /\ UNCHANGED <<claimVars, pairVars, aggVars, fairVars, key_order, other_order,
                   other_validation, audit_entry, other_audit, now, batchVars, agentVars>>

\* create_audit_log on the second claim, with its activations or with none,
\* at a later time.
AuditOtherClaim ==
    /\ "generate_interpretability_report(other)" \in op
    /\ "create_audit_log(other)" \notin op
    /\ op' = op \cup { "create_audit_log(other)" }
    /\ \E decision \in Decisions, rules \in { other_report.rules_activated, << >> } :
          other_audit' = create_audit_log(other_claim, other_order, rules, decision, now)
    /\ now' = now + 1
    /\ UNCHANGED <<claimVars, pairVars, aggVars, fairVars, key_order, other_order,
                   other_validation, other_report, audit_entry, batchVars, agentVars>>

NextAudit ==
    \/ ValidateClaimData
    \/ GenerateInterpretabilityReport
    \/ CreateAuditLog
    \/ ValidateOtherClaim
    \/ ReportOtherClaim
    \/ AuditOtherClaim

SpecAudit == InitAudit /\ [][NextAudit]_vars

Audited == "create_audit_log" \in op
BothAudited == Audited /\ "create_audit_log(other)" \in op

\* An audit record without its timestamp.
WithoutTimestamp(entry) ==
    [k \in DOMAIN entry \ { "timestamp" } |-> entry[k]]

\* An audit record without its timestamp and hash.
WithoutTimestampAndHash(entry) ==
    [k \in DOMAIN entry \ { "timestamp", "audit_hash" } |-> entry[k]]

\* C12: two runs of generate_interpretability_report and create_audit_log on
\* claims with identical field values (and the same similar claims), whatever
\* the insertion order of the fields, give an identical report and an
\* identical audit_hash, whatever activations, decision and time the two
\* audit entries were created with.
C12_SameFieldsSameReportAndHash ==
    (BothAudited /\ other_claim = claim_data) =>
        /\ report.similar_patterns = other_report.similar_patterns
              => other_report = report
        /\ other_audit.audit_hash = audit_entry.audit_hash

\* C12 witness: the same fields inserted in another order, audited later with
\* another decision and no activation, have the same hash.
C12_Witness ==
    /\ BothAudited
    /\ other_claim = claim_data
    /\ other_order # key_order
    /\ other_order # sorted(DOMAIN claim_data)
    /\ other_audit.decision # audit_entry.decision
    /\ other_audit.rules_activated # audit_entry.rules_activated
    /\ other_audit.timestamp # audit_entry.timestamp
    /\ other_report = report
    /\ other_audit.audit_hash = audit_entry.audit_hash

\* C13: validation never gates processing.  For every claim, rejected by the
\* validator or not, the report and the audit entry can be produced and are
\* produced as records; the rules are those whose trigger holds, whatever the
\* validator says (an amount above 10000 on a known procedure is invalid and
\* activates HIGH_AMOUNT); the audit entry names the rules of the report and
\* its validation_status is the result of validate_claim_data on the claim.
C13_ValidationNeverGates ==
    /\ ~ Reported => ENABLED GenerateInterpretabilityReport
    /\ (Reported /\ ~ Audited) => ENABLED CreateAuditLog
    /\ (Validated /\ Audited) =>
          LET rules == report.rules_activated
          IN  /\ audit_entry.validation_status = validation
              /\ audit_entry.rules_activated = RuleIdsOf(rules)
              /\ Positions(rules, "HIGH_AMOUNT") # { }
                    <=> (KnownProcedure(TheProcedure)
                         /\ TheAmount > StatedThreshold(TheProcedure))
              /\ Positions(rules, "GEOGRAPHIC_RESTRICTION") # { }
                    <=> (TheProcedure = "Virtual Consultation"
                         /\ Get(claim_data, "patient_state", << >>) \in StatedRestrictedStates)
              /\ (KnownProcedure(TheProcedure) /\ TheAmount > 10000) =>
                    /\ ~ validation.valid
                    /\ Positions(rules, "HIGH_AMOUNT") # { }

\* C13 witness: a Virtual Consultation of 10001 from 'ZZ' is rejected with two
\* errors, and its audit entry holds the HIGH_AMOUNT activation and the
\* rejection.
C13_Witness ==
    /\ Validated /\ Audited
    /\ TheProcedure = "Virtual Consultation"
    /\ TheAmount = 10001
    /\ ~ validation.valid
    /\ Len(validation.errors) = 2
    /\ audit_entry.rules_activated = <<"HIGH_AMOUNT">>
    /\ ~ audit_entry.validation_status.valid

\* C13 witness: a rejected claim that activates no rule.
C13_WitnessNoRule ==
    /\ Validated /\ Audited
    /\ TheProcedure = "Physical Therapy"
    /\ ~ validation.valid
    /\ audit_entry.rules_activated = << >>
    /\ audit_entry.validation_status = validation

\* C14: a claim without claim_id gets neither a report nor an audit entry.
C14_MissingClaimIdFails ==
    "claim_id" \notin DOMAIN claim_data => (~ Reported /\ ~ Audited)

\* The report and the audit entry returned for a claim without claim_id, with
\* claim_id silently None.
C14_SilentlyDefaulted ==
    /\ "claim_id" \notin DOMAIN claim_data
    /\ Reported /\ Audited
    /\ report.claim_id = None
    /\ audit_entry.claim_id = None

\* The second claim is the first with one field the engine does not know.
OnlyExtraFieldAdded ==
    /\ BothAudited /\ Validated
    /\ other_claim = WithExtraField(claim_data)
    /\ other_report.similar_patterns = report.similar_patterns
    /\ other_audit.decision = audit_entry.decision
    /\ other_audit.rules_activated = audit_entry.rules_activated

-----------------------------------------------------------------------------
(* The per-claim operations run concurrently (specification SpecBatch)     *)
(*                                                                         *)
(* Two workers each take one claim of a batch through validate_claim_data, *)
(* generate_interpretability_report and create_audit_log, and are          *)
(* interleaved between the statements of validate_claim_data and           *)
(* evaluate_business_rules.  A list is an object: `errors = []` and        *)
(* `rules_activated = []` create a new one in each call, a local name      *)
(* holds a reference to it and append() changes the object.  The other     *)
(* operations build their values from their arguments in one step.         *)

Workers == { 1, 2 }

\* The statements a worker goes through, in order.
Program ==
    << "errors = []", "check amount", "check state", "check procedure",
       "return validation", "rules_activated = []", "rule 1", "rule 2", "rule 3",
       "return report", "return audit_entry", "done" >>

At(w, statement) == Program[pc[w]] = statement

\* A worker is past a statement.
Past(w, statement) == \E i \in 1..(pc[w] - 1) : Program[i] = statement

\* `[]` evaluated to one list object kept for all calls (a class-level list).
NewList_shared(lists) == 1

\* `[]`: a reference to a list object that did not exist.
NewList(lists) == Len(lists) + 1

\* The list objects once the object of `ref` exists.
Bind(lists, ref) == IF ref > Len(lists) THEN Append(lists, << >>) ELSE lists

\* The report assembled from the values of the calls it makes.
AssembleReport(claim, rules, similar_claims) ==
    [ claim_id              |-> Get(claim, "claim_id", None),
      feature_analysis      |-> analyze_claim_features(claim),
      rules_activated       |-> rules,
      decision_pathway      |-> trace_decision_pathway(rules),
      confidence_assessment |-> assess_confidence(rules),
      similar_patterns      |-> Len(similar_claims),
      recommendations       |-> generate_recommendations(rules),
      counterfactuals       |-> generate_counterfactuals(claim) ]

BatchProcedures == { "Virtual Consultation", "Mental Health Session", "Physical Therapy" }
BatchAmounts    == { 100, 700, 10001 }
BatchStateCodes == { Code("W","Y"), Code("Z","Z") }

\* The claims a worker may be given.
BatchClaims(id) ==
    { MakeClaim(<<id>>, <<p>>, <<"Common Cold">>, <<a>>, <<s>>) :
        p \in BatchProcedures, a \in BatchAmounts, s \in BatchStateCodes }

InitBatch ==
    /\ op = { }
    /\ batch \in { <<c1, c2>> : c1 \in BatchClaims("CLM-1"), c2 \in BatchClaims("CLM-2") }
    /\ class_tables = [VALID_STATES |-> VALID_STATES]
    /\ pc = [w \in Workers |-> 1]
    /\ frame = [w \in Workers |-> [errors |-> 0, rules_activated |-> 0]]
    /\ error_lists = << >>
    /\ rule_lists = << >>
    /\ result = [w \in Workers |-> [validation |-> NoValue, report |-> NoValue,
                                    audit_entry |-> NoValue]]
    /\ claim_data = NoValue /\ validation = NoValue /\ report = NoValue
    /\ PairIdle /\ AggIdle /\ FairIdle /\ AuditIdle /\ AgentIdle

Advance(w) == pc' = [pc EXCEPT ![w] = @ + 1]

\* errors = []
NewErrors(w) ==
    /\ At(w, "errors = []")
    /\ LET ref == NewList(error_lists)
       IN  /\ frame' = [frame EXCEPT ![w].errors = ref]
           /\ error_lists' = Bind(error_lists, ref)
    /\ Advance(w)
    /\ UNCHANGED <<op, claimVars, pairVars, aggVars, fairVars, auditVars, agentVars,
                   batch, class_tables, rule_lists, result>>

\* if not (1 <= amount <= 10000): errors.append(...)
CheckAmount(w) ==
    /\ At(w, "check amount")
    /\ error_lists' = [error_lists EXCEPT ![frame[w].errors] = @ \o AmountErrors(batch[w])]
    /\ Advance(w)
    /\ UNCHANGED <<op, claimVars, pairVars, aggVars, fairVars, auditVars, agentVars,
                   batch, class_tables, frame, rule_lists, result>>

\* if state not in MechanisticInterpreter.VALID_STATES: errors.append(...)
CheckState(w) ==
    /\ At(w, "check state")
    /\ LET state == Upper(Get(batch[w], "patient_state", << >>))
       IN  error_lists' =
              [error_lists EXCEPT ![frame[w].errors] =
                  IF state \notin class_tables.VALID_STATES
                  THEN Append(@, [error |-> "Invalid state code", state |-> state])
                  ELSE @]
    /\ Advance(w)
    /\ UNCHANGED <<op, claimVars, pairVars, aggVars, fairVars, auditVars, agentVars,
                   batch, class_tables, frame, rule_lists, result>>

\* if procedure and procedure not in valid_procedures: errors.append(...)
CheckProcedure(w) ==
    /\ At(w, "check procedure")
    /\ error_lists' = [error_lists EXCEPT ![frame[w].errors] = @ \o ProcedureErrors(batch[w])]
    /\ Advance(w)
    /\ UNCHANGED <<op, claimVars, pairVars, aggVars, fairVars, auditVars, agentVars,
                   batch, class_tables, frame, rule_lists, result>>

\* return {'valid': len(errors) == 0, 'errors': errors}
ReturnValidation(w) ==
    /\ At(w, "return validation")
    /\ LET errors == error_lists[frame[w].errors]
       IN  result' = [result EXCEPT ![w].validation =
                         [valid |-> Len(errors) = 0, errors |-> errors]]
    /\ Advance(w)
    /\ UNCHANGED <<op, claimVars, pairVars, aggVars, fairVars, auditVars, agentVars,
                   batch, class_tables, frame, error_lists, rule_lists>>

\* rules_activated = []
NewRules(w) ==
    /\ At(w, "rules_activated = []")
    /\ LET ref == NewList(rule_lists)
       IN  /\ frame' = [frame EXCEPT ![w].rules_activated = ref]
           /\ rule_lists' = Bind(rule_lists, ref)
    /\ Advance(w)
    /\ UNCHANGED <<op, claimVars, pairVars, aggVars, fairVars, auditVars, agentVars,
                   batch, class_tables, error_lists, result>>

\* The three rules, each an `if` that appends to rules_activated.
Rule1(w) ==
    /\ At(w, "rule 1")
    /\ rule_lists' = [rule_lists EXCEPT ![frame[w].rules_activated] =
                         @ \o UnusualComboRule(batch[w])]
    /\ Advance(w)
    /\ UNCHANGED <<op, claimVars, pairVars, aggVars, fairVars, auditVars, agentVars,
                   batch, class_tables, frame, error_lists, result>>

Rule2(w) ==
    /\ At(w, "rule 2")
    /\ rule_lists' = [rule_lists EXCEPT ![frame[w].rules_activated] =
                         @ \o HighAmountRule(batch[w])]
    /\ Advance(w)
    /\ UNCHANGED <<op, claimVars, pairVars, aggVars, fairVars, auditVars, agentVars,
                   batch, class_tables, frame, error_lists, result>>

Rule3(w) ==
    /\ At(w, "rule 3")
    /\ rule_lists' = [rule_lists EXCEPT ![frame[w].rules_activated] =
                         @ \o GeographicRule(batch[w])]
    /\ Advance(w)
    /\ UNCHANGED <<op, claimVars, pairVars, aggVars, fairVars, auditVars, agentVars,
                   batch, class_tables, frame, error_lists, result>>

\* evaluate_business_rules returns its list and
\* generate_interpretability_report returns the report built on it.
ReturnReport(w) ==
    /\ At(w, "return report")
    /\ result' = [result EXCEPT ![w].report =
                     AssembleReport(batch[w], rule_lists[frame[w].rules_activated], << >>)]
    /\ Advance(w)
    /\ UNCHANGED <<op, claimVars, pairVars, aggVars, fairVars, auditVars, agentVars,
                   batch, class_tables, frame, error_lists, rule_lists>>

\* create_audit_log(claim, report['rules_activated'], 'Pending')
ReturnAuditEntry(w) ==
    /\ At(w, "return audit_entry")
    /\ result' = [result EXCEPT ![w].audit_entry =
                     create_audit_log(batch[w],
                         SelectSeq(GenerationOrder, LAMBDA k : k \in DOMAIN batch[w]),
                         result[w].report.rules_activated, "Pending", now)]
    /\ now' = now + 1
    /\ Advance(w)
    /\ UNCHANGED <<op, claimVars, pairVars, aggVars, fairVars, agentVars,
                   key_order, other_order, other_validation, other_report,
                   audit_entry, other_audit,
                   batch, class_tables, frame, error_lists, rule_lists>>

NextBatch ==
    \E w \in Workers :
        \/ NewErrors(w)
        \/ CheckAmount(w)
        \/ CheckState(w)
        \/ CheckProcedure(w)
        \/ ReturnValidation(w)
        \/ NewRules(w)
        \/ Rule1(w)
        \/ Rule2(w)
        \/ Rule3(w)
        \/ ReturnReport(w)
        \/ ReturnAuditEntry(w)

SpecBatch == InitBatch /\ [][NextBatch]_vars

\* What a worker has been returned equals what the operations return for its
\* claim alone.
AsAlone(w) ==
    /\ Past(w, "return validation")
          => result[w].validation = validate_claim_data(batch[w])
    /\ Past(w, "return report")
          => result[w].report = generate_interpretability_report(batch[w], << >>)
    /\ Past(w, "return audit_entry")
          => result[w].audit_entry.audit_hash
                = md5(json_dumps(batch[w], sorted(DOMAIN batch[w])))

\* C17: no step of the per-claim operations changes a claim record or a
\* shared reference table, and under every interleaving of two workers each
\* claim's validation result, report and audit_hash equal those of running
\* that claim alone.
C17_ConcurrentAsAlone ==
    /\ [](\A w \in Workers : AsAlone(w))
    /\ [][batch' = batch /\ class_tables' = class_tables]_vars

\* C17 witness: worker 1 created its errors list first and its rules list
\* second, both workers are done, the claims activated different rules and
\* got different errors, and each has the result of its claim alone.
C17_Witness ==
    /\ \A w \in Workers : At(w, "done") /\ AsAlone(w)
    /\ frame[1].errors = 1 /\ frame[1].rules_activated = 2
    /\ frame[2].errors = 2 /\ frame[2].rules_activated = 1
    /\ Len(rule_lists[1]) = 2 /\ Len(rule_lists[2]) = 1
    /\ Len(error_lists[1]) = 1 /\ Len(error_lists[2]) = 2
    /\ result[1].audit_entry.audit_hash # result[2].audit_entry.audit_hash

\* C17 witness: both workers in the middle of evaluate_business_rules, each
\* with an activation in its own list.
C17_WitnessMidway ==
    /\ At(1, "rule 3") /\ At(2, "rule 2")
    /\ frame[1].rules_activated # frame[2].rules_activated
    /\ Len(rule_lists[frame[1].rules_activated]) = 1
    /\ Len(rule_lists[frame[2].rules_activated]) = 1

-----------------------------------------------------------------------------
(* run_conversation and validate_agent_response of src/run_agent.py        *)
(* (specification SpecRun)                                                 *)
(*                                                                         *)
(* A text is None or a sequence of words separated by single spaces; no    *)
(* word of the model matches a PII pattern.  An agent event has parts or   *)
(* not; its first part carries a function call or None and a text or None, *)
(* and is_final_response() is a flag of the event.                         *)

\* Largest number of events the runner yields in one conversation.
MaxEvents == 3

\* An Optional[str]: None, or the words of a string.
NoText == [none |-> TRUE, words |-> << >>]
Text(words) == [none |-> FALSE, words |-> words]

\* len(word) for every word of the model's texts.
word_len ==
      "Unable" :> 6
   @@ "to" :> 2
   @@ "retrieve" :> 8
   @@ "final" :> 5
   @@ "response." :> 9
   @@ "An" :> 2
   @@ "error" :> 5
   @@ "occurred" :> 8
   @@ "during" :> 6
   @@ "the" :> 3
   @@ "conversation:" :> 13
   @@ "boom" :> 4
   @@ "Response" :> 8
   @@ "validation" :> 10
   @@ "failed." :> 7
   @@ "Please" :> 6
   @@ "try" :> 3
   @@ "again." :> 6
   @@ "ok" :> 2
   @@ "Found" :> 5
   @@ "3" :> 1
   @@ "outlier" :> 7
   @@ "claims" :> 6
   @@ "Request" :> 7
   @@ "Timeout" :> 7

\* word.lower() for every word of the model's texts.
word_lower ==
      "Unable" :> "unable"
   @@ "to" :> "to"
   @@ "retrieve" :> "retrieve"
   @@ "final" :> "final"
   @@ "response." :> "response."
   @@ "An" :> "an"
   @@ "error" :> "error"
   @@ "occurred" :> "occurred"
   @@ "during" :> "during"
   @@ "the" :> "the"
   @@ "conversation:" :> "conversation:"
   @@ "boom" :> "boom"
   @@ "Response" :> "response"
   @@ "validation" :> "validation"
   @@ "failed." :> "failed."
   @@ "Please" :> "please"
   @@ "try" :> "try"
   @@ "again." :> "again."
   @@ "ok" :> "ok"
   @@ "Found" :> "found"
   @@ "3" :> "3"
   @@ "outlier" :> "outlier"
   @@ "claims" :> "claims"
   @@ "Request" :> "request"
   @@ "Timeout" :> "timeout"

\* len(text.strip())
RECURSIVE CharCount(_)
CharCount(words) ==
    IF words = << >> THEN 0
    ELSE word_len[Head(words)] + (IF Len(words) > 1 THEN 1 ELSE 0) + CharCount(Tail(words))

\* text.lower()
str_lower(words) == [i \in DOMAIN words |-> word_lower[words[i]]]

\* phrase in text
Contains(words, phrase) ==
    \E i \in 1..(Len(words) - Len(phrase) + 1) :
        \A j \in 1..Len(phrase) : words[i + j - 1] = phrase[j]

ContainsAny(words, phrases) == \E i \in DOMAIN phrases : Contains(words, phrases[i])

outlier_keywords ==
    << <<"outlier">>, <<"flagged">>, <<"business", "rule">>, <<"triggered", "rules">>,
       <<"interpretability">> >>

required_sections ==
    << <<"SUMMARY:">>, <<"TRIGGERED", "RULES:">>, <<"CONFIDENCE:">>, <<"RECOMMENDATION:">> >>

error_indicators ==
    << <<"error", "occurred">>, <<"unable", "to", "retrieve">>, <<"failed", "to", "process">>,
       <<"timeout">>, <<"connection", "failed">> >>

question_keywords ==
    << <<"claims">>, <<"outlier">>, <<"amount">>, <<"procedure">>, <<"diagnosis">>,
       <<"state">>, <<"provider">>, <<"flagged">>, <<"analysis">>, <<"distribution">> >>

\* Warnings never change `valid`.
validate_agent_response(response_text) ==
    IF response_text.none \/ CharCount(response_text.words) < 5
    THEN [ valid |-> FALSE, errors |-> <<"Response is empty or too short">>,
           warnings |-> << >> ]
    ELSE LET words    == response_text.words
             lowered  == str_lower(words)
             missing  == SelectSeq(required_sections, LAMBDA sec : ~ Contains(words, sec))
             found    == SelectSeq(error_indicators, LAMBDA ind : Contains(lowered, ind))
             warnings ==
                (IF ContainsAny(lowered, outlier_keywords) /\ missing # << >>
                 THEN <<"Structured response missing sections">> ELSE << >>)
                \o (IF CharCount(words) < 20
                    THEN <<"Response seems very short">> ELSE << >>)
                \o (IF ~ ContainsAny(lowered, question_keywords)
                    THEN <<"Response may not be relevant to insurance claims analysis">>
                    ELSE << >>)
         IN  [ valid    |-> found = << >>,
               errors   |-> [i \in DOMAIN found |->
                               <<"Response indicates system error", found[i]>>],
               warnings |-> warnings ]

\* "Unable to retrieve final response."
FallbackText == Text(<<"Unable", "to", "retrieve", "final", "response.">>)

\* f"An error occurred during the conversation: {e}"
ExceptionText ==
    Text(<<"An", "error", "occurred", "during", "the", "conversation:", "boom">>)

\* "Response validation failed. Please try again."
FailureText == Text(<<"Response", "validation", "failed.", "Please", "try", "again.">>)

\* Texts an agent event may carry: "", "ok", "Found 3 outlier claims" and
\* "Request Timeout".
EmptyText == Text(<< >>)
ShortText == Text(<<"ok">>)
AnswerText == Text(<<"Found", "3", "outlier", "claims">>)
TimeoutText == Text(<<"Request", "Timeout">>)

AgentTexts == { NoText, EmptyText, ShortText, AnswerText, TimeoutText }

ToolNames == { "query_claims", "explain_outlier" }

\* The events a runner may yield.
Events ==
    { [has_parts |-> FALSE, function_call |-> None, text |-> NoText, final |-> f] :
        f \in BOOLEAN }
    \cup
    { [has_parts |-> TRUE, function_call |-> c, text |-> t, final |-> f] :
        c \in { None } \cup ToolNames, t \in AgentTexts, f \in BOOLEAN }

InitRun ==
    /\ op = { }
    /\ seen = << >>
    /\ tool_calls = << >>
    /\ final_response_text = FallbackText
    /\ run_pc = "async for"
    /\ returned = NoValue
    /\ claim_data = NoValue /\ validation = NoValue /\ report = NoValue
    /\ PairIdle /\ AggIdle /\ FairIdle /\ AuditIdle /\ BatchIdle

\* One iteration of the loop over the events: the tool call of the event is
\* appended, and a final event sets the text (if it has parts) and breaks.
OnEvent ==
    /\ run_pc = "async for"
    /\ Len(seen) < MaxEvents
    /\ \E event \in Events :
          /\ seen' = Append(seen, event)
          /\ tool_calls' =
                IF event.has_parts /\ event.function_call # None
                THEN Append(tool_calls, [tool_name |-> event.function_call])
                ELSE tool_calls
          /\ final_response_text' =
                IF event.final /\ event.has_parts THEN event.text
                ELSE final_response_text
          /\ run_pc' = IF event.final THEN "validate" ELSE "async for"
    /\ UNCHANGED <<op, returned, claimVars, pairVars, aggVars, fairVars,
                   auditVars, batchVars>>

\* The runner yields no further event.
StreamEnds ==
    /\ run_pc = "async for"
    /\ run_pc' = "validate"
    /\ op' = op \cup { "StopAsyncIteration" }
    /\ UNCHANGED <<seen, tool_calls, final_response_text, returned, claimVars,
                   pairVars, aggVars, fairVars, auditVars, batchVars>>

\* The runner raises: the except branch sets the text.
StreamRaises ==
    /\ run_pc = "async for"
    /\ final_response_text' = ExceptionText
    /\ run_pc' = "validate"
    /\ op' = op \cup { "except Exception" }
    /\ UNCHANGED <<seen, tool_calls, returned, claimVars, pairVars, aggVars,
                   fairVars, auditVars, batchVars>>

\* The validation, the override and the return.  For an invalid response the
\* code prints final_response_text[:200], which raises TypeError on None.
ValidateAndReturn ==
    /\ run_pc = "validate"
    /\ LET validation_results == validate_agent_response(final_response_text)
       IN  returned' =
              IF ~ validation_results.valid /\ final_response_text.none
              THEN [ raised |-> "TypeError" ]
              ELSE [ response |-> IF validation_results.valid THEN final_response_text
                                  ELSE FailureText,
                     predicted_trajectory |-> tool_calls,
                     validation_results |-> validation_results ]
    /\ run_pc' = "returned"
    /\ UNCHANGED <<op, seen, tool_calls, final_response_text, claimVars, pairVars,
                   aggVars, fairVars, auditVars, batchVars>>

NextRun == OnEvent \/ StreamEnds \/ StreamRaises \/ ValidateAndReturn

SpecRun == InitRun /\ [][NextRun]_vars

\* run_conversation is over: it returned a value or raised.
Over == run_pc = "returned"
Raised == "raised" \in DOMAIN returned

\* The final-response events received.
FinalEvents == { i \in DOMAIN seen : seen[i].final }

\* An event carries a text: its first part has a text that is not empty.
CarriesText(event) ==
    event.has_parts /\ ~ event.text.none /\ event.text.words # << >>

\* The tool calls of a sequence of events, in event order.
ToolCallsOf(events) ==
    LET calling == SelectSeq(events, LAMBDA e : e.has_parts /\ e.function_call # None)
    IN  [i \in DOMAIN calling |-> [tool_name |-> calling[i].function_call]]

\* The rest of C20 for a conversation that returned a value.
ReturnedAsClaimed ==
    /\ returned.response # FallbackText /\ returned.response # ExceptionText
    /\ \A i \in FinalEvents :
          seen[i].has_parts /\ "except Exception" \notin op =>
             ( validate_agent_response(seen[i].text).valid
                  <=> returned.response = seen[i].text )
    /\ returned.predicted_trajectory = ToolCallsOf(seen)
    /\ FinalEvents \subseteq { Len(seen) }

\* C20: when run_conversation is over, it has returned a value; if the stream
\* raised or ended without a final response that carries text, the value has
\* the response 'Response validation failed. Please try again.' and
\* valid = false, and the fallback texts never reach the caller; the response
\* is the agent's final text exactly when validate_agent_response judges it
\* valid; predicted_trajectory holds in event order the tool calls of the
\* events up to and including the first final-response event.
C20_FailuresReachCallerAsValidationFailed ==
    Over =>
        /\ ( \/ "except Exception" \in op
             \/ ~ \E i \in FinalEvents : CarriesText(seen[i]) )
              => /\ ~ Raised
                 /\ returned.response = FailureText
                 /\ ~ returned.validation_results.valid
        /\ ~ Raised => ReturnedAsClaimed

\* The final response without text for which run_conversation raises: a final
\* event whose first part has no text (text is None).
C20_RaisesTypeError ==
    /\ Over /\ Raised
    /\ "except Exception" \notin op
    /\ Len(seen) = 1 /\ seen[1].final /\ seen[1].has_parts /\ seen[1].text.none

\* C20 apart from that final event: the same statement for the conversations
\* in which no final event has parts and a text of None.
C20_HoldsUnlessFinalTextIsNone ==
    (Over /\ ( "except Exception" \in op
               \/ ~ \E i \in FinalEvents : seen[i].has_parts /\ seen[i].text.none )) =>
        /\ ~ Raised
        /\ ( \/ "except Exception" \in op
             \/ ~ \E i \in FinalEvents : CarriesText(seen[i]) )
              => /\ returned.response = FailureText
                 /\ ~ returned.validation_results.valid
        /\ ReturnedAsClaimed

\* A stream that raised after two tool calls: the caller gets the failure
\* response and both tool calls.
C20_RaisedStreamReturnsFailure ==
    /\ Over /\ ~ Raised
    /\ "except Exception" \in op
    /\ returned.response = FailureText
    /\ Len(returned.predicted_trajectory) = 2
    /\ returned.predicted_trajectory[1].tool_name = "explain_outlier"
    /\ returned.predicted_trajectory[2].tool_name = "query_claims"

====
